---- MODULE Spec2Model ----
(***************************************************************************)
(* Auth Agent: OAuth 2.1 authorization server for agents.                  *)
(*                                                                         *)
(* The in-memory store (InMemoryStore), the authorization-request          *)
(* coordinator (/authorize, /api/agent/authenticate, /api/check-status),   *)
(* the token endpoint (/token), introspection (/introspect) and            *)
(* revocation (/revoke).                                                   *)
(*                                                                         *)
(* Every handler is an async function: it runs without interruption up to  *)
(* each `await`, where other handlers may run.  A handler is modelled as a *)
(* frame (its parameters, its locals, its position pc) and a step operator *)
(* that runs the frame from one await to the next against the store.       *)
(* Running the step operator to completion is one whole handler call.      *)
(***************************************************************************)
EXTENDS Integers, Sequences, FiniteSets, TLC

VARIABLES
    agents,              \* InMemoryStore.agents            agent_id -> Agent
    clients,             \* InMemoryStore.clients           client_id -> Client
    authRequests,        \* InMemoryStore.authRequests      request_id -> AuthRequest
    authorizationCodes,  \* InMemoryStore.authorizationCodes  code -> request_id
    tokens,              \* InMemoryStore.tokens, in insertion order (token_id = position)
    refreshTokens,       \* InMemoryStore.refreshTokens     refresh_token -> RefreshTokenEntry
    reqCount,            \* number of request ids drawn by generateRequestId
    codeCount,           \* number of codes drawn by generateAuthCode
    now,                 \* Date.now(), in units of 100 ms
    procs,               \* handlers in flight: process -> frame
    hist                 \* history of completed calls (see Observe)

vars == <<agents, clients, authRequests, authorizationCodes, tokens, refreshTokens,
          reqCount, codeCount, now, procs, hist>>

-----------------------------------------------------------------------------
(* Bounds of the model. *)

MaxRequests == 1
MaxTokens == 2

(* Program constants, seconds (CONFIG). *)
ACCESS_TOKEN_EXPIRES_IN == 3600
REFRESH_TOKEN_EXPIRES_IN == 2592000
AUTH_REQUEST_EXPIRES_IN == 600

JWT_ISSUER == "auth-agent.com"
JWT_SECRET == "jwt-secret"
DEFAULT_SCOPE == "openid profile"

(* Times are Date.now() readings counted in units of 100 ms (TLC's integers   *)
(* are 32 bits wide and 30 days of milliseconds do not fit): the clock is     *)
(* read only at multiples of 100 ms.  Seconds(x) is x seconds in these units  *)
(* (the code's x * 1000), InSeconds(t) is Math.floor(t / 1000).               *)
UnitsPerSecond == 1000 \div 100
Seconds(x) == x * UnitsPerSecond
InSeconds(t) == t \div UnitsPerSecond

(* The instants at which the clock is read: the start, 100 ms later (the same *)
(* second), exactly one auth-request lifetime after the start, and 100 ms     *)
(* after that.                                                                *)
Instants == {0, 1, Seconds(AUTH_REQUEST_EXPIRES_IN), Seconds(AUTH_REQUEST_EXPIRES_IN) + 1}

Null == [null |-> TRUE]

Procs == {"p1", "p2"}

-----------------------------------------------------------------------------
(* Registered principals and the values callers present. *)

ClientIds == {"client_A", "client_B"}
AgentIds == {"agent_1"}
UnknownClientId == "client_X"
UnknownAgentId == "agent_X"

\* what crypto.randomBytes hands to one call: two calls never draw the same bytes
Entropy == {"random_1", "random_2"}
\* 'client_' + nanoid(16)
GeneratedClientId(entropy) == IF entropy = "random_1" THEN "client_n1" ELSE "client_n2"
GeneratedClientIds == {GeneratedClientId(e) : e \in Entropy}

SecretOf(id) == <<"secret", id>>
WrongSecret == <<"secret", "wrong">>

RedirectUriOf(client_id) == <<"https://site/callback", client_id>>
OtherRedirectUri == <<"https://evil/callback", "none">>

Verifiers == {"verifier_1", "wrong"}
Models == {"model_1"}
States == {"state_1"}

-----------------------------------------------------------------------------
(* lib/crypto *)

\* bcrypt.hash: the hash determines the secret it was made from; the salt is left out.
hashSecret(secret) == <<"bcrypt", secret>>

\* fault model: a comparison that accepts every secret
verifySecret_any(secret, hash) == TRUE

\* bcrypt.compare
verifySecret(secret, hash) == hash = hashSecret(secret)

\* crypto.createHash('sha256').update(v).digest('base64url'): injective on the verifiers
sha256base64url(codeVerifier) == <<"sha256", codeVerifier>>

\* fault model: a PKCE check that accepts every verifier
validatePKCE_any(codeVerifier, codeChallenge, method) == TRUE

validatePKCE(codeVerifier, codeChallenge, method) ==
    IF method # "S256" THEN FALSE
    ELSE sha256base64url(codeVerifier) = codeChallenge

\* crypto.randomBytes(bytes).toString('base64url')
generateSecureRandom(entropy) == <<"secret", entropy>>

generateRequestId(n) == [req |-> n]
generateAuthCode(n) == [code |-> n]
generateRefreshToken(n) == [rt |-> n]

(* lib/jwt *)

\* jwt.sign(payload, JWT_SECRET, HS256): the compact string determines, and is
\* determined by, the payload and the signing key.
generateAccessToken(agentId, clientId, model, scope, t) ==
    [sub |-> agentId, client_id |-> clientId, model |-> model, scope |-> scope,
     iat |-> InSeconds(t), exp |-> InSeconds(t) + ACCESS_TOKEN_EXPIRES_IN,
     iss |-> JWT_ISSUER, sig |-> JWT_SECRET]

\* jwt.verify(token, JWT_SECRET, {algorithms: ['HS256'], issuer}): the payload, or Null
\* fault model: a verification that accepts every token
verifyAccessToken_unchecked(token, t) == token

verifyAccessToken(token, t) ==
    IF /\ DOMAIN token = {"sub", "client_id", "model", "scope", "iat", "exp", "iss", "sig"}
       /\ token.sig = JWT_SECRET
       /\ token.iss = JWT_ISSUER
       /\ InSeconds(t) < token.exp
    THEN token
    ELSE Null

-----------------------------------------------------------------------------
(* db/store: InMemoryStore.  A store value is a record of the six maps and    *)
(* the two id generators; each method is an operator on store values.         *)

\* {...r, ...u}
Merge(r, u) == u @@ r
\* map.set(k, v)
Put(m, k, v) == (k :> v) @@ m
\* fault model: a map whose delete leaves the entry in place
Remove_kept(m, k) == m

Remove(m, k) == [x \in DOMAIN m \ {k} |-> m[x]]

getAgent(db, agent_id) ==
    IF agent_id \in DOMAIN db.agents THEN db.agents[agent_id] ELSE Null

getClient(db, client_id) ==
    IF client_id \in DOMAIN db.clients THEN db.clients[client_id] ELSE Null

deleteAgent(db, agent_id) == [db EXCEPT !.agents = Remove(@, agent_id)]

\* this.clients.set(client.client_id, client): an entry under the same id is replaced
createClient(db, client) == [db EXCEPT !.clients = Put(@, client.client_id, client)]

updateClient(db, client_id, updates) ==
    IF client_id \notin DOMAIN db.clients THEN db
    ELSE [db EXCEPT !.clients[client_id] = Merge(@, updates)]

deleteClient(db, client_id) == [db EXCEPT !.clients = Remove(@, client_id)]

createAuthRequest(db, request) ==
    [db EXCEPT !.authRequests = Put(@, request.request_id, request)]

getAuthRequest(db, request_id) ==
    IF request_id \in DOMAIN db.authRequests THEN db.authRequests[request_id] ELSE Null

updateAuthRequest(db, request_id, updates) ==
    IF request_id \notin DOMAIN db.authRequests THEN db
    ELSE [db EXCEPT !.authRequests[request_id] = Merge(@, updates)]

\* fault model: a store whose deleteAuthRequest is lost
deleteAuthRequest_lost(db, request_id) == db

deleteAuthRequest(db, request_id) ==
    [db EXCEPT !.authRequests = Remove(@, request_id)]

\* fault model: a store that loses the code it is given
storeAuthCode_lost(db, code, request_id) == db

storeAuthCode(db, code, request_id) ==
    [db EXCEPT !.authorizationCodes = Put(@, code, request_id)]

getAuthCodeRequestId(db, code) ==
    IF code \in DOMAIN db.authorizationCodes THEN db.authorizationCodes[code] ELSE Null

deleteAuthCode(db, code) ==
    [db EXCEPT !.authorizationCodes = Remove(@, code)]

\* fault model: a store whose createToken is lost
createToken_lost(db, token) == db

\* tokens.set(token.token_id, token) with a token_id drawn in the same step
createToken(db, token) ==
    [db EXCEPT !.tokens = Append(@, token)]

getToken(db, token_id) ==
    IF token_id \in 1..Len(db.tokens) THEN db.tokens[token_id] ELSE Null

\* the position of the first Token, in insertion order, holding this access_token; 0 if none
FirstTokenIndex(db, access_token) ==
    LET hits == {i \in 1..Len(db.tokens) : db.tokens[i].access_token = access_token}
    IN IF hits = {} THEN 0 ELSE CHOOSE i \in hits : \A j \in hits : i <= j

getTokenByAccessToken(db, access_token) ==
    LET i == FirstTokenIndex(db, access_token)
    IN IF i = 0 THEN Null ELSE db.tokens[i]

\* fault model: a revocation by token_id that flips the flag instead of setting it
revokeToken_flipped(db, token_id) ==
    IF token_id \notin 1..Len(db.tokens) THEN db
    ELSE [db EXCEPT !.tokens[token_id].revoked = ~@]

revokeToken(db, token_id) ==
    IF token_id \notin 1..Len(db.tokens) THEN db
    ELSE [db EXCEPT !.tokens[token_id].revoked = TRUE]

\* fault model: a revocation that flips the flag instead of setting it
revokeTokenByAccessToken_flipped(db, access_token) ==
    LET i == FirstTokenIndex(db, access_token)
    IN IF i = 0 THEN db ELSE [db EXCEPT !.tokens[i].revoked = ~@]

revokeTokenByAccessToken(db, access_token) ==
    LET i == FirstTokenIndex(db, access_token)
    IN IF i = 0 THEN db ELSE [db EXCEPT !.tokens[i].revoked = TRUE]

createRefreshToken(db, refreshToken) ==
    [db EXCEPT !.refreshTokens = Put(@, refreshToken.refresh_token, refreshToken)]

getRefreshToken(db, refresh_token) ==
    IF refresh_token \in DOMAIN db.refreshTokens THEN db.refreshTokens[refresh_token] ELSE Null

\* fault model: a store whose revokeRefreshToken is lost
db_revokeRefreshToken_lost(db, refresh_token) == db

db_revokeRefreshToken(db, refresh_token) ==
    IF refresh_token \notin DOMAIN db.refreshTokens THEN db
    ELSE [db EXCEPT !.refreshTokens[refresh_token].revoked = TRUE]

\* fault model: a sweep that also removes what expires at this very instant
cleanupExpired_inclusive(db, t) ==
    [db EXCEPT
        !.authRequests = [id \in {i \in DOMAIN @ : ~(@[i].expires_at <= t)} |-> @[id]],
        !.refreshTokens = [k \in {i \in DOMAIN @ : ~(@[i].expires_at <= t)} |-> @[k]]]

cleanupExpired(db, t) ==
    [db EXCEPT
        !.authRequests = [id \in {i \in DOMAIN @ : ~(@[i].expires_at < t)} |-> @[id]],
        !.refreshTokens = [k \in {i \in DOMAIN @ : ~(@[i].expires_at < t)} |-> @[k]]]

-----------------------------------------------------------------------------
(* Handler frames.  args holds the request's fields (a missing field is      *)
(* absent from the record); resp is Null until the handler has answered.     *)

Has(r, f) == f \in DOMAIN r

Frame(op, args) == [op |-> op, pc |-> "start", args |-> args, resp |-> Null]

Goto(db, h, pc, locals) == [db |-> db, h |-> Merge(h, Merge(locals, [pc |-> pc]))]

Reply(db, h, http, body) ==
    [db |-> db, h |-> Merge(h, [pc |-> "done", resp |-> [http |-> http, body |-> body]])]

OAuthError(db, h, http, error, description) ==
    Reply(db, h, http, [error |-> error, error_description |-> description])

\* revoked is read through the object reference the store handed out
LiveTokenRevoked(db, tokenEntry) == db.tokens[tokenEntry.token_id].revoked

LiveRefreshRevoked(db, entry) ==
    IF entry.refresh_token \in DOMAIN db.refreshTokens
    THEN db.refreshTokens[entry.refresh_token].revoked
    ELSE entry.revoked

-----------------------------------------------------------------------------
(* oauth/authorize: GET /authorize *)

isValidClientId(client_id) == client_id \in ClientIds \cup {UnknownClientId} \cup GeneratedClientIds
isValidUrl(url) == url \in {RedirectUriOf(c) : c \in ClientIds} \cup {OtherRedirectUri}
isAllowedRedirectUri(uri, allowedUris) == uri \in allowedUris

\* fault model: a server that takes every code_challenge_method
isValidCodeChallengeMethod_any(method) == TRUE

isValidCodeChallengeMethod(method) == method = "S256"

ErrorPage(db, h, error) == Reply(db, h, 200, [html |-> "error", error |-> error])

authorizeHandler(db, t, h) ==
    LET q == h.args IN
    CASE h.pc = "start" ->
            IF ~Has(q, "client_id") THEN ErrorPage(db, h, "invalid_request")
            ELSE IF ~Has(q, "redirect_uri") THEN ErrorPage(db, h, "invalid_request")
            ELSE IF ~Has(q, "state") THEN ErrorPage(db, h, "invalid_request")
            ELSE IF ~Has(q, "code_challenge") THEN ErrorPage(db, h, "invalid_request")
            ELSE IF ~Has(q, "code_challenge_method") THEN ErrorPage(db, h, "invalid_request")
            ELSE IF ~Has(q, "response_type") \/ q.response_type # "code"
                 THEN ErrorPage(db, h, "unsupported_response_type")
            ELSE IF ~isValidClientId(q.client_id) THEN ErrorPage(db, h, "invalid_request")
            ELSE IF ~isValidUrl(q.redirect_uri) THEN ErrorPage(db, h, "invalid_request")
            ELSE IF ~isValidCodeChallengeMethod(q.code_challenge_method)
                 THEN ErrorPage(db, h, "invalid_request")
            ELSE Goto(db, h, "got_client", [client |-> getClient(db, q.client_id)])
      [] h.pc = "got_client" ->
            IF h.client = Null THEN ErrorPage(db, h, "invalid_client")
            ELSE IF ~isAllowedRedirectUri(q.redirect_uri, h.client.allowed_redirect_uris)
                 THEN ErrorPage(db, h, "invalid_request")
            ELSE LET finalScope == IF Has(q, "scope") THEN q.scope ELSE DEFAULT_SCOPE
                     requestId == generateRequestId(db.reqCount + 1)
                     request == [request_id |-> requestId,
                                 client_id |-> q.client_id,
                                 redirect_uri |-> q.redirect_uri,
                                 state |-> q.state,
                                 code_challenge |-> q.code_challenge,
                                 code_challenge_method |-> q.code_challenge_method,
                                 scope |-> finalScope,
                                 status |-> "pending",
                                 created_at |-> t,
                                 expires_at |-> t + Seconds(AUTH_REQUEST_EXPIRES_IN)]
                 IN Reply(createAuthRequest([db EXCEPT !.reqCount = @ + 1], request), h, 200,
                          [html |-> "spinning", request_id |-> requestId])

-----------------------------------------------------------------------------
(* POST /api/agent/authenticate *)

\* fault model: an authenticate handler that takes a request in any status
alreadyHandled_never(authRequest) == FALSE

\* authRequest.status !== 'pending'
alreadyHandled(authRequest) == authRequest.status # "pending"

agentAuthenticateHandler(db, t, h) ==
    LET a == h.args IN
    CASE h.pc = "start" ->
            IF ~Has(a, "request_id") \/ ~Has(a, "agent_id") \/ ~Has(a, "agent_secret")
               \/ ~Has(a, "model")
            THEN OAuthError(db, h, 400, "invalid_request", "Missing required fields")
            ELSE Goto(db, h, "got_request", [authRequest |-> getAuthRequest(db, a.request_id)])
      [] h.pc = "got_request" ->
            IF h.authRequest = Null
            THEN OAuthError(db, h, 404, "invalid_request", "Auth request not found or expired")
            ELSE IF h.authRequest.expires_at < t
            THEN OAuthError(updateAuthRequest(db, a.request_id,
                                [status |-> "expired", error |-> "Auth request expired"]),
                            h, 400, "request_expired", "Auth request has expired")
            ELSE IF alreadyHandled(h.authRequest)
            THEN OAuthError(db, h, 400, "invalid_request", "Auth request is already handled")
            ELSE Goto(db, h, "got_agent", [agent |-> getAgent(db, a.agent_id)])
      [] h.pc = "got_agent" ->
            IF h.agent = Null
            THEN OAuthError(updateAuthRequest(db, a.request_id,
                                [status |-> "error", error |-> "Invalid agent credentials"]),
                            h, 401, "invalid_client", "Agent not found")
            ELSE Goto(db, h, "verified",
                      [isValidSecret |-> verifySecret(a.agent_secret, h.agent.agent_secret_hash)])
      [] h.pc = "verified" ->
            IF ~h.isValidSecret
            THEN OAuthError(updateAuthRequest(db, a.request_id,
                                [status |-> "error", error |-> "Invalid agent credentials"]),
                            h, 401, "invalid_client", "Invalid agent credentials")
            ELSE LET authCode == generateAuthCode(db.codeCount + 1)
                 IN Goto(updateAuthRequest([db EXCEPT !.codeCount = @ + 1], a.request_id,
                            [agent_id |-> a.agent_id, model |-> a.model,
                             code |-> authCode, status |-> "authenticated"]),
                         h, "updated_request", [authCode |-> authCode])
      [] h.pc = "updated_request" ->
            Reply(storeAuthCode(db, h.authCode, a.request_id), h, 200, [success |-> TRUE])

-----------------------------------------------------------------------------
(* oauth/checkStatus: GET /api/check-status *)

\* fault model: the status of a request whose code was handed out is left as it was
markCompleted_omitted(db, request_id) == db

\* the request whose code is being handed out is marked completed
markCompleted(db, request_id) == updateAuthRequest(db, request_id, [status |-> "completed"])

checkStatusHandler(db, t, h) ==
    LET a == h.args IN
    CASE h.pc = "start" ->
            IF ~Has(a, "request_id")
            THEN OAuthError(db, h, 400, "invalid_request", "Missing request_id parameter")
            ELSE Goto(db, h, "got_request", [authRequest |-> getAuthRequest(db, a.request_id)])
      [] h.pc = "got_request" ->
            LET authRequest == h.authRequest IN
            IF authRequest = Null
            THEN OAuthError(db, h, 404, "not_found", "Auth request not found")
            ELSE IF authRequest.expires_at < t /\ authRequest.status = "pending"
            THEN Reply(updateAuthRequest(db, a.request_id,
                            [status |-> "expired", error |-> "Auth request expired"]),
                       h, 200, [status |-> "error", error |-> "request_expired"])
            ELSE IF authRequest.status = "authenticated" /\ Has(authRequest, "code")
            THEN Reply(markCompleted(db, a.request_id),
                       h, 200, [status |-> "authenticated",
                                code |-> authRequest.code,
                                state |-> authRequest.state,
                                redirect_uri |-> authRequest.redirect_uri])
            ELSE IF authRequest.status = "error"
            THEN Reply(db, h, 200,
                       [status |-> "error",
                        error |-> IF Has(authRequest, "error") THEN authRequest.error
                                  ELSE "Authentication failed"])
            ELSE Reply(db, h, 200, [status |-> "pending"])

-----------------------------------------------------------------------------
(* oauth/token: POST /token *)

TokenResponse(db, h, accessToken, refreshToken, scope) ==
    Reply(db, h, 200, [access_token |-> accessToken,
                       token_type |-> "Bearer",
                       expires_in |-> ACCESS_TOKEN_EXPIRES_IN,
                       refresh_token |-> refreshToken,
                       scope |-> scope])

handleAuthorizationCodeGrant(db, t, h) ==
    LET a == h.args IN
    CASE h.pc = "start" ->
            IF ~Has(a, "code") \/ ~Has(a, "code_verifier") \/ ~Has(a, "client_id")
               \/ ~Has(a, "client_secret")
            THEN OAuthError(db, h, 400, "invalid_request", "Missing required parameters")
            ELSE Goto(db, h, "got_client", [client |-> getClient(db, a.client_id)])
      [] h.pc = "got_client" ->
            IF h.client = Null
            THEN OAuthError(db, h, 401, "invalid_client", "Client not found")
            ELSE Goto(db, h, "verified_client",
                      [isValidClient |-> verifySecret(a.client_secret, h.client.client_secret_hash)])
      [] h.pc = "verified_client" ->
            IF ~h.isValidClient
            THEN OAuthError(db, h, 401, "invalid_client", "Invalid client credentials")
            ELSE Goto(db, h, "got_request_id", [requestId |-> getAuthCodeRequestId(db, a.code)])
      [] h.pc = "got_request_id" ->
            IF h.requestId = Null
            THEN OAuthError(db, h, 400, "invalid_grant", "Invalid or expired authorization code")
            ELSE Goto(db, h, "got_request", [authRequest |-> getAuthRequest(db, h.requestId)])
      [] h.pc = "got_request" ->
            LET authRequest == h.authRequest IN
            IF authRequest = Null \/ ~Has(authRequest, "code") \/ authRequest.code # a.code
            THEN OAuthError(db, h, 400, "invalid_grant", "Invalid authorization code")
            ELSE IF authRequest.client_id # a.client_id
            THEN OAuthError(db, h, 400, "invalid_grant", "Client ID mismatch")
            ELSE IF ~validatePKCE(a.code_verifier, authRequest.code_challenge,
                                  authRequest.code_challenge_method)
            THEN OAuthError(db, h, 400, "invalid_grant", "Invalid PKCE code_verifier")
            ELSE IF authRequest.expires_at < t
            THEN Goto(deleteAuthCode(db, a.code), h, "expired_deleted_code", <<>>)
            ELSE IF ~Has(authRequest, "agent_id") \/ ~Has(authRequest, "model")
            THEN OAuthError(db, h, 500, "server_error", "Missing agent information in auth request")
            ELSE LET tokenId == Len(db.tokens) + 1
                     accessToken == generateAccessToken(authRequest.agent_id, a.client_id,
                                                        authRequest.model, authRequest.scope, t)
                     refreshTokenValue == generateRefreshToken(tokenId)
                 IN Goto(createToken(db,
                            [token_id |-> tokenId,
                             access_token |-> accessToken,
                             refresh_token |-> refreshTokenValue,
                             agent_id |-> authRequest.agent_id,
                             client_id |-> a.client_id,
                             model |-> authRequest.model,
                             scope |-> authRequest.scope,
                             access_token_expires_at |-> t + Seconds(ACCESS_TOKEN_EXPIRES_IN),
                             refresh_token_expires_at |-> t + Seconds(REFRESH_TOKEN_EXPIRES_IN),
                             created_at |-> t,
                             revoked |-> FALSE]),
                         h, "created_token",
                         [now |-> t, tokenId |-> tokenId, accessToken |-> accessToken,
                          refreshTokenValue |-> refreshTokenValue])
      [] h.pc = "expired_deleted_code" ->
            OAuthError(deleteAuthRequest(db, h.requestId), h, 400, "invalid_grant",
                       "Authorization code expired")
      [] h.pc = "created_token" ->
            Goto(createRefreshToken(db,
                    [refresh_token |-> h.refreshTokenValue,
                     token_id |-> h.tokenId,
                     agent_id |-> h.authRequest.agent_id,
                     client_id |-> a.client_id,
                     expires_at |-> h.now + Seconds(REFRESH_TOKEN_EXPIRES_IN),
                     revoked |-> FALSE]),
                 h, "created_refresh_token", <<>>)
      [] h.pc = "created_refresh_token" ->
            Goto(deleteAuthCode(db, a.code), h, "deleted_code", <<>>)
      [] h.pc = "deleted_code" ->
            TokenResponse(deleteAuthRequest(db, h.requestId), h, h.accessToken,
                          h.refreshTokenValue, h.authRequest.scope)

\* fault model: a refresh grant that starts a new refresh lifetime
keptRefreshExpiry_renewed(refreshTokenEntry, t) == t + Seconds(REFRESH_TOKEN_EXPIRES_IN)

\* refresh_token_expires_at: refreshTokenEntry.expires_at
keptRefreshExpiry(refreshTokenEntry, t) == refreshTokenEntry.expires_at

\* fault model: a refresh grant that does not compare client ids
clientIdMismatch_never(refreshTokenEntry, client_id) == FALSE

\* refreshTokenEntry.client_id !== client_id
clientIdMismatch(refreshTokenEntry, client_id) == refreshTokenEntry.client_id # client_id

\* fault model: a refresh grant that does not look at the refresh token's expiry
refreshExpired_never(refreshTokenEntry, t) == FALSE

\* refreshTokenEntry.expires_at < Date.now()
refreshExpired(refreshTokenEntry, t) == refreshTokenEntry.expires_at < t

handleRefreshTokenGrant(db, t, h) ==
    LET a == h.args IN
    CASE h.pc = "start" ->
            IF ~Has(a, "refresh_token") \/ ~Has(a, "client_id") \/ ~Has(a, "client_secret")
            THEN OAuthError(db, h, 400, "invalid_request", "Missing required parameters")
            ELSE Goto(db, h, "got_client", [client |-> getClient(db, a.client_id)])
      [] h.pc = "got_client" ->
            IF h.client = Null
            THEN OAuthError(db, h, 401, "invalid_client", "Client not found")
            ELSE Goto(db, h, "verified_client",
                      [isValidClient |-> verifySecret(a.client_secret, h.client.client_secret_hash)])
      [] h.pc = "verified_client" ->
            IF ~h.isValidClient
            THEN OAuthError(db, h, 401, "invalid_client", "Invalid client credentials")
            ELSE Goto(db, h, "got_refresh_token",
                      [refreshTokenEntry |-> getRefreshToken(db, a.refresh_token)])
      [] h.pc = "got_refresh_token" ->
            LET refreshTokenEntry == h.refreshTokenEntry IN
            IF refreshTokenEntry = Null
            THEN OAuthError(db, h, 400, "invalid_grant", "Invalid refresh token")
            ELSE IF LiveRefreshRevoked(db, refreshTokenEntry)
            THEN OAuthError(db, h, 400, "invalid_grant", "Refresh token has been revoked")
            ELSE IF refreshExpired(refreshTokenEntry, t)
            THEN OAuthError(db, h, 400, "invalid_grant", "Refresh token expired")
            ELSE IF clientIdMismatch(refreshTokenEntry, a.client_id)
            THEN OAuthError(db, h, 400, "invalid_grant", "Client ID mismatch")
            ELSE Goto(db, h, "got_token",
                      [originalToken |-> getToken(db, refreshTokenEntry.token_id)])
      [] h.pc = "got_token" ->
            LET refreshTokenEntry == h.refreshTokenEntry
                originalToken == h.originalToken
            IN
            IF originalToken = Null
            THEN OAuthError(db, h, 500, "server_error", "Original token not found")
            ELSE LET newTokenId == Len(db.tokens) + 1
                     newAccessToken == generateAccessToken(refreshTokenEntry.agent_id, a.client_id,
                                                           originalToken.model, originalToken.scope, t)
                 IN TokenResponse(
                        createToken(db,
                            [token_id |-> newTokenId,
                             access_token |-> newAccessToken,
                             refresh_token |-> a.refresh_token,
                             agent_id |-> refreshTokenEntry.agent_id,
                             client_id |-> a.client_id,
                             model |-> originalToken.model,
                             scope |-> originalToken.scope,
                             access_token_expires_at |-> t + Seconds(ACCESS_TOKEN_EXPIRES_IN),
                             refresh_token_expires_at |-> keptRefreshExpiry(refreshTokenEntry, t),
                             created_at |-> t,
                             revoked |-> FALSE]),
                        Merge(h, [newTokenId |-> newTokenId]),
                        newAccessToken, a.refresh_token, originalToken.scope)

tokenHandler(db, t, h) ==
    IF h.pc = "start" /\ ~Has(h.args, "grant_type")
    THEN OAuthError(db, h, 400, "invalid_request", "Missing grant_type parameter")
    ELSE IF h.args.grant_type = "authorization_code" THEN handleAuthorizationCodeGrant(db, t, h)
    ELSE IF h.args.grant_type = "refresh_token" THEN handleRefreshTokenGrant(db, t, h)
    ELSE OAuthError(db, h, 400, "unsupported_grant_type", "Grant type is not supported")

-----------------------------------------------------------------------------
(* oauth/introspect: POST /introspect *)

Inactive(db, h) == Reply(db, h, 200, [active |-> FALSE])

introspectHandler(db, t, h) ==
    LET a == h.args IN
    CASE h.pc = "start" ->
            IF ~Has(a, "token")
            THEN OAuthError(db, h, 400, "invalid_request", "Missing token parameter")
            ELSE IF ~Has(a, "client_id") \/ ~Has(a, "client_secret")
            THEN OAuthError(db, h, 400, "invalid_request", "Missing client credentials")
            ELSE Goto(db, h, "got_client", [client |-> getClient(db, a.client_id)])
      [] h.pc = "got_client" ->
            IF h.client = Null
            THEN OAuthError(db, h, 401, "invalid_client", "Client not found")
            ELSE Goto(db, h, "verified_client",
                      [isValidClient |-> verifySecret(a.client_secret, h.client.client_secret_hash)])
      [] h.pc = "verified_client" ->
            IF ~h.isValidClient
            THEN OAuthError(db, h, 401, "invalid_client", "Invalid client credentials")
            ELSE IF Has(a, "token_type_hint") /\ a.token_type_hint = "refresh_token"
            THEN \* introspectRefreshToken
                 Goto(db, h, "refresh_got_entry", [refreshToken |-> getRefreshToken(db, a.token)])
            ELSE \* introspectAccessToken
                 LET payload == verifyAccessToken(a.token, t) IN
                 IF payload = Null THEN Inactive(db, h)
                 ELSE Goto(db, h, "access_got_token",
                           [payload |-> payload,
                            tokenEntry |-> getTokenByAccessToken(db, a.token)])
      [] h.pc = "access_got_token" ->
            IF h.tokenEntry = Null \/ LiveTokenRevoked(db, h.tokenEntry) THEN Inactive(db, h)
            ELSE IF h.tokenEntry.client_id # a.client_id THEN Inactive(db, h)
            ELSE IF h.payload.exp < InSeconds(t) THEN Inactive(db, h)
            ELSE Reply(db, h, 200, [active |-> TRUE,
                                    scope |-> h.payload.scope,
                                    client_id |-> h.payload.client_id,
                                    token_type |-> "Bearer",
                                    exp |-> h.payload.exp,
                                    iat |-> h.payload.iat,
                                    sub |-> h.payload.sub,
                                    iss |-> h.payload.iss,
                                    model |-> h.payload.model])
      [] h.pc = "refresh_got_entry" ->
            IF h.refreshToken = Null \/ LiveRefreshRevoked(db, h.refreshToken) THEN Inactive(db, h)
            ELSE IF h.refreshToken.client_id # a.client_id THEN Inactive(db, h)
            ELSE IF h.refreshToken.expires_at < t THEN Inactive(db, h)
            ELSE Goto(db, h, "refresh_got_token",
                      [originalToken |-> getToken(db, h.refreshToken.token_id)])
      [] h.pc = "refresh_got_token" ->
            Reply(db, h, 200,
                  Merge([active |-> TRUE,
                         token_type |-> "refresh_token",
                         client_id |-> h.refreshToken.client_id,
                         sub |-> h.refreshToken.agent_id,
                         exp |-> InSeconds(h.refreshToken.expires_at)],
                        IF h.originalToken = Null THEN <<>>
                        ELSE [model |-> h.originalToken.model, scope |-> h.originalToken.scope]))

-----------------------------------------------------------------------------
(* oauth/introspect: POST /revoke *)

revokeHandler(db, t, h) ==
    LET a == h.args IN
    CASE h.pc = "start" ->
            IF ~Has(a, "token") THEN Reply(db, h, 200, <<>>)
            ELSE IF ~Has(a, "client_id") \/ ~Has(a, "client_secret")
            THEN OAuthError(db, h, 401, "invalid_client", "Missing client credentials")
            ELSE Goto(db, h, "got_client", [client |-> getClient(db, a.client_id)])
      [] h.pc = "got_client" ->
            IF h.client = Null
            THEN OAuthError(db, h, 401, "invalid_client", "Client not found")
            ELSE Goto(db, h, "verified_client",
                      [isValidClient |-> verifySecret(a.client_secret, h.client.client_secret_hash)])
      [] h.pc = "verified_client" ->
            IF ~h.isValidClient
            THEN OAuthError(db, h, 401, "invalid_client", "Invalid client credentials")
            ELSE IF Has(a, "token_type_hint") /\ a.token_type_hint = "refresh_token"
            THEN Goto(db, h, "refresh_got_entry", [refreshToken |-> getRefreshToken(db, a.token)])
            ELSE Goto(db, h, "access_got_token",
                      [tokenEntry |-> getTokenByAccessToken(db, a.token)])
      \* revokeAccessToken
      [] h.pc = "access_got_token" ->
            IF h.tokenEntry = Null THEN Goto(db, h, "access_not_revoked", <<>>)
            ELSE IF h.tokenEntry.client_id # a.client_id THEN Goto(db, h, "access_not_revoked", <<>>)
            ELSE Goto(revokeTokenByAccessToken(db, a.token), h, "access_revoked_token", <<>>)
      [] h.pc = "access_revoked_token" ->
            IF Has(h.tokenEntry, "refresh_token")
            THEN Reply(db_revokeRefreshToken(db, h.tokenEntry.refresh_token),
                       Merge(h, [revokedAccess |-> TRUE]), 200, <<>>)
            ELSE Reply(db, Merge(h, [revokedAccess |-> TRUE]), 200, <<>>)
      [] h.pc = "access_not_revoked" ->
            Goto(db, h, "refresh_got_entry", [refreshToken |-> getRefreshToken(db, a.token)])
      \* revokeRefreshToken
      [] h.pc = "refresh_got_entry" ->
            IF h.refreshToken = Null THEN Reply(db, h, 200, <<>>)
            ELSE IF h.refreshToken.client_id # a.client_id THEN Reply(db, h, 200, <<>>)
            ELSE Goto(db_revokeRefreshToken(db, a.token), h, "refresh_revoked_entry", <<>>)
      [] h.pc = "refresh_revoked_entry" ->
            Goto(db, h, "refresh_got_token",
                 [tokenEntry |-> getToken(db, h.refreshToken.token_id)])
      [] h.pc = "refresh_got_token" ->
            IF h.tokenEntry # Null
            THEN Reply(revokeToken(db, h.tokenEntry.token_id),
                       Merge(h, [revokedRefresh |-> TRUE]), 200, <<>>)
            ELSE Reply(db, Merge(h, [revokedRefresh |-> TRUE]), 200, <<>>)

-----------------------------------------------------------------------------
(* admin/clients: POST, PUT and DELETE /api/admin/clients.  A JSON value that *)
(* should be an array is [array |-> its members] when it is one and           *)
(* [string |-> s] when it is not.                                             *)

isArray(v) == Has(v, "array")

AdminError(db, h, http, error) == Reply(db, h, http, [error |-> error])

createClientHandler(db, t, h) ==
    LET b == h.args
        finalClientId == IF Has(b, "client_id") THEN b.client_id
                         ELSE GeneratedClientId(b.entropy) IN
    CASE h.pc = "start" ->
            IF ~Has(b, "client_name") \/ ~Has(b, "redirect_uris")
            THEN AdminError(db, h, 400, "invalid_request")
            ELSE IF ~isArray(b.redirect_uris) THEN AdminError(db, h, 400, "invalid_request")
            ELSE IF b.redirect_uris.array = {} THEN AdminError(db, h, 400, "invalid_request")
            ELSE IF \E uri \in b.redirect_uris.array : ~isValidUrl(uri)
            THEN AdminError(db, h, 400, "invalid_request")
            ELSE IF ~isValidClientId(finalClientId) THEN AdminError(db, h, 400, "invalid_request")
            ELSE Goto(db, h, "got_existing", [existing |-> getClient(db, finalClientId)])
      [] h.pc = "got_existing" ->
            IF h.existing # Null THEN AdminError(db, h, 400, "invalid_request")
            ELSE Goto(db, h, "hashed",
                      [clientSecret |-> generateSecureRandom(b.entropy),
                       clientSecretHash |-> hashSecret(generateSecureRandom(b.entropy))])
      [] h.pc = "hashed" ->
            Reply(createClient(db, [client_id |-> finalClientId,
                                    client_secret_hash |-> h.clientSecretHash,
                                    client_name |-> b.client_name,
                                    allowed_redirect_uris |-> b.redirect_uris.array,
                                    allowed_grant_types |->
                                        {"authorization_code", "refresh_token"},
                                    created_at |-> t]),
                  h, 201,
                  [client_id |-> finalClientId, client_secret |-> h.clientSecret,
                   allowed_redirect_uris |-> b.redirect_uris.array])

updateClientHandler(db, t, h) ==
    LET b == h.args
        named == IF Has(b, "client_name") THEN [client_name |-> b.client_name] ELSE <<>> IN
    CASE h.pc = "start" -> Goto(db, h, "got_client", [client |-> getClient(db, b.id)])
      [] h.pc = "got_client" ->
            IF h.client = Null THEN AdminError(db, h, 404, "not_found")
            ELSE IF ~Has(b, "redirect_uris")
            THEN Goto(updateClient(db, b.id, named), h, "updated", <<>>)
            ELSE IF ~isArray(b.redirect_uris) THEN AdminError(db, h, 400, "invalid_request")
            ELSE IF \E uri \in b.redirect_uris.array : ~isValidUrl(uri)
            THEN AdminError(db, h, 400, "invalid_request")
            ELSE Goto(updateClient(db, b.id,
                                   Merge(named,
                                         [allowed_redirect_uris |-> b.redirect_uris.array])),
                      h, "updated", <<>>)
      [] h.pc = "updated" ->
            IF getClient(db, b.id) = Null THEN AdminError(db, h, 500, "server_error")
            ELSE Reply(db, h, 200,
                       [client_id |-> b.id,
                        allowed_redirect_uris |-> getClient(db, b.id).allowed_redirect_uris])

deleteClientHandler(db, t, h) ==
    IF h.args.id \notin DOMAIN db.clients THEN AdminError(db, h, 404, "not_found")
    ELSE Reply(deleteClient(db, h.args.id), h, 200,
               [message |-> "Client deleted successfully"])

-----------------------------------------------------------------------------
(* Running handlers against the store variables. *)

DB == [agents |-> agents, clients |-> clients, authRequests |-> authRequests,
       authorizationCodes |-> authorizationCodes, tokens |-> tokens,
       refreshTokens |-> refreshTokens, reqCount |-> reqCount, codeCount |-> codeCount]

SetDB(db) ==
    /\ agents' = db.agents
    /\ clients' = db.clients
    /\ authRequests' = db.authRequests
    /\ authorizationCodes' = db.authorizationCodes
    /\ tokens' = db.tokens
    /\ refreshTokens' = db.refreshTokens
    /\ reqCount' = db.reqCount
    /\ codeCount' = db.codeCount

\* one handler, from its current await to the next
Step(db, t, h) ==
    CASE h.op = "authorize" -> authorizeHandler(db, t, h)
      [] h.op = "authenticate" -> agentAuthenticateHandler(db, t, h)
      [] h.op = "check_status" -> checkStatusHandler(db, t, h)
      [] h.op = "token" -> tokenHandler(db, t, h)
      [] h.op = "introspect" -> introspectHandler(db, t, h)
      [] h.op = "revoke" -> revokeHandler(db, t, h)
      [] h.op = "create_client" -> createClientHandler(db, t, h)
      [] h.op = "update_client" -> updateClientHandler(db, t, h)
      [] h.op = "delete_client" -> deleteClientHandler(db, t, h)

\* one handler, from its current await to its response, with no other handler in between
RECURSIVE Run(_, _, _)
Run(db, t, h) ==
    IF h.pc = "done" THEN [db |-> db, h |-> h]
    ELSE LET r == Step(db, t, h) IN Run(r.db, t, r.h)

\* what a whole call answers in the store db at time t
Answer(db, t, op, args) == Run(db, t, Frame(op, args)).h.resp

\* the store a whole call leaves behind
After(db, t, op, args) == Run(db, t, Frame(op, args)).db

-----------------------------------------------------------------------------
(* History of completed calls, kept for stating properties; the handlers do   *)
(* not read it.                                                               *)
(*   deliveries    request_id -> number of check-status calls that returned   *)
(*                 its code                                                   *)
(*   redemptions   code -> token_ids of the Tokens made by the              *)
(*                 authorization_code grants that answered 200 for it         *)

NoHistory == [deliveries |-> <<>>, redemptions |-> <<>>]

Count(f, k) == IF k \in DOMAIN f THEN f[k] ELSE 0

Made(f, k) == IF k \in DOMAIN f THEN f[k] ELSE {}

Observe(hs, h) ==
    IF h.op = "check_status" /\ Has(h.resp.body, "code")
    THEN [hs EXCEPT !.deliveries = Put(@, h.args.request_id, Count(@, h.args.request_id) + 1)]
    ELSE IF h.op = "token" /\ h.resp.http = 200 /\ h.args.grant_type = "authorization_code"
    THEN [hs EXCEPT !.redemptions = Put(@, h.args.code, Made(@, h.args.code) \cup {h.tokenId})]
    ELSE hs

-----------------------------------------------------------------------------
(* The requests callers send. *)

IssuedRequestIds == {generateRequestId(n) : n \in 1..reqCount}
IssuedCodes == {generateAuthCode(n) : n \in 1..codeCount}
IssuedAccessTokens == {tokens[i].access_token : i \in 1..Len(tokens)}
IssuedRefreshTokens == {tokens[i].refresh_token : i \in 1..Len(tokens)}
BogusToken == [bogus |-> TRUE]

ValidCredentials == {[client_id |-> c, client_secret |-> SecretOf(c)] : c \in ClientIds}

InvalidCredentials ==
    {[client_id |-> c, client_secret |-> WrongSecret] : c \in ClientIds \cup {UnknownClientId}}

ClientCredentials == ValidCredentials \cup InvalidCredentials

\* /authorize: a well-formed request of client_A, one with a redirect_uri that is
\* not registered, one with code_challenge_method plain
AuthorizeArgs ==
    {[client_id |-> "client_A", redirect_uri |-> u, state |-> "state_1",
      code_challenge |-> sha256base64url("verifier_1"), code_challenge_method |-> m,
      response_type |-> "code"] :
        u \in {RedirectUriOf("client_A")}, m \in {"S256"}}
    \cup {[client_id |-> "client_A", redirect_uri |-> OtherRedirectUri, state |-> "state_1",
           code_challenge |-> sha256base64url("verifier_1"), code_challenge_method |-> "S256",
           response_type |-> "code"],
          [client_id |-> "client_A", redirect_uri |-> RedirectUriOf("client_A"),
           state |-> "state_1", code_challenge |-> sha256base64url("verifier_1"),
           code_challenge_method |-> "plain", response_type |-> "code"]}

AgentCredentials ==
    {[agent_id |-> "agent_1", agent_secret |-> SecretOf("agent_1")],
     [agent_id |-> "agent_1", agent_secret |-> WrongSecret],
     [agent_id |-> UnknownAgentId, agent_secret |-> WrongSecret]}

AuthenticateArgs ==
    {Merge(c, [request_id |-> r, model |-> "model_1"]) :
        r \in IssuedRequestIds, c \in AgentCredentials}

CheckStatusArgs == {[request_id |-> r] : r \in IssuedRequestIds}

PresentedCodes == IssuedCodes \cup {generateAuthCode(0)}
PresentedRefreshTokens == IssuedRefreshTokens \cup {BogusToken}
PresentedTokens == IssuedAccessTokens \cup IssuedRefreshTokens \cup {BogusToken}

CodeGrantArgsOf(creds) ==
    {Merge(c, [grant_type |-> "authorization_code", code |-> k, code_verifier |-> v]) :
        c \in creds, k \in PresentedCodes, v \in Verifiers}

RefreshGrantArgsOf(creds) ==
    {Merge(c, [grant_type |-> "refresh_token", refresh_token |-> k]) :
        c \in creds, k \in PresentedRefreshTokens}

TokenHints == {<<>>, [token_type_hint |-> "access_token"], [token_type_hint |-> "refresh_token"]}

TokenArgsOf(creds) ==
    {Merge(Merge(c, [token |-> k]), hint) :
        c \in creds, k \in PresentedTokens, hint \in TokenHints}

\* every request of each kind, for properties that speak of every call
CodeGrantArgs == CodeGrantArgsOf(ClientCredentials)
RefreshGrantArgs == RefreshGrantArgsOf(ClientCredentials)
TokenArgs == TokenArgsOf(ClientCredentials)

\* A call refused for its client credentials reads nothing else of the request and
\* changes nothing: the actions send one such call of each kind.
SomeInvalidCredentials == {[client_id |-> "client_A", client_secret |-> WrongSecret]}

-----------------------------------------------------------------------------
(* State after construction and provisioning: the store holds the registered  *)
(* clients and agents and nothing else.                                       *)

Init ==
    /\ agents = [a \in AgentIds |->
                    [agent_id |-> a, agent_secret_hash |-> hashSecret(SecretOf(a))]]
    /\ clients = [c \in ClientIds |->
                    [client_id |-> c, client_secret_hash |-> hashSecret(SecretOf(c)),
                     allowed_redirect_uris |-> {RedirectUriOf(c)}]]
    /\ authRequests = <<>>
    /\ authorizationCodes = <<>>
    /\ tokens = <<>>
    /\ refreshTokens = <<>>
    /\ reqCount = 0
    /\ codeCount = 0
    /\ now = 0
    /\ procs = [p \in Procs |-> Null]
    /\ hist = NoHistory

-----------------------------------------------------------------------------
(* Handlers run one at a time: each action is one whole call. *)

Call(op, args) ==
    LET r == Run(DB, now, Frame(op, args)) IN
    /\ SetDB(r.db)
    /\ hist' = Observe(hist, r.h)
    /\ UNCHANGED <<now, procs>>

Authorize == \E q \in AuthorizeArgs : reqCount < MaxRequests /\ Call("authorize", q)

Authenticate == \E a \in AuthenticateArgs : Call("authenticate", a)

CheckStatus == \E a \in CheckStatusArgs : Call("check_status", a)

\* The actions send every request of the registered owner client_A, and of the
\* requests that are refused whatever the store holds (another client's, or with
\* credentials that do not verify) one of each kind: a refused call leaves every
\* variable as it is.  Properties of refused calls quantify over all of them.
OwnerCredentials == {[client_id |-> "client_A", client_secret |-> SecretOf("client_A")]}
OtherCredentials == {[client_id |-> "client_B", client_secret |-> SecretOf("client_B")]}

CodeGrant ==
    \E a \in CodeGrantArgsOf(OwnerCredentials)
             \cup {x \in CodeGrantArgsOf(OtherCredentials) :
                      x.code \in IssuedCodes /\ x.code_verifier = "verifier_1"}
             \cup {x \in CodeGrantArgsOf(SomeInvalidCredentials) :
                      x.code = generateAuthCode(0) /\ x.code_verifier = "wrong"} :
        Len(tokens) < MaxTokens /\ Call("token", a)

RefreshGrant ==
    \E a \in RefreshGrantArgsOf(OwnerCredentials)
             \cup {x \in RefreshGrantArgsOf(OtherCredentials) :
                      x.refresh_token \in IssuedRefreshTokens}
             \cup {x \in RefreshGrantArgsOf(SomeInvalidCredentials) :
                      x.refresh_token = BogusToken} :
        Len(tokens) < MaxTokens /\ Call("token", a)

Introspect ==
    \E a \in {x \in TokenArgsOf(OwnerCredentials) :
                 ~Has(x, "token_type_hint") /\ x.token \notin IssuedRefreshTokens} :
        Call("introspect", a)

Revoke ==
    \E a \in {x \in TokenArgsOf(OwnerCredentials) :
                 Has(x, "token_type_hint") => x.token_type_hint = "refresh_token"}
             \cup {x \in TokenArgsOf(OtherCredentials) :
                      x.token \in IssuedAccessTokens /\ ~Has(x, "token_type_hint")}
             \cup {x \in TokenArgsOf(SomeInvalidCredentials) :
                      x.token = BogusToken /\ ~Has(x, "token_type_hint")} :
        Call("revoke", a)

\* setInterval(() => db.cleanupExpired(), ...)
Sweep ==
    /\ SetDB(cleanupExpired(DB, now))
    /\ UNCHANGED <<now, procs, hist>>

\* time passes between calls
Tick ==
    /\ \E t \in Instants : t > now /\ now' = t
    /\ UNCHANGED <<agents, clients, authRequests, authorizationCodes, tokens, refreshTokens,
                   reqCount, codeCount, procs, hist>>

Next ==
    \/ Authorize
    \/ Authenticate
    \/ CheckStatus
    \/ CodeGrant
    \/ RefreshGrant
    \/ Introspect
    \/ Revoke
    \/ Sweep
    \/ Tick

Spec == Init /\ [][Next]_vars

-----------------------------------------------------------------------------
(* Handlers in flight together.  A handler runs from one await to the next    *)
(* without interruption; at an await any other handler may run.  procs[p] is  *)
(* the frame of the call process p has in flight, Null when it has none.      *)

InFlight(op) == {p \in Procs : procs[p] # Null /\ procs[p].op = op}

\* the store and the frame after one more block of the call h of process p
Advance(p, h) ==
    LET r == Step(DB, now, h) IN
    /\ SetDB(r.db)
    /\ IF r.h.pc = "done"
       THEN procs' = [procs EXCEPT ![p] = Null] /\ hist' = Observe(hist, r.h)
       ELSE procs' = [procs EXCEPT ![p] = r.h] /\ hist' = hist
    /\ UNCHANGED now

\* a request arrives: the handler runs to its first await
Begin(p, op, args) == procs[p] = Null /\ Advance(p, Frame(op, args))

\* the awaited promise of process p settles: its handler runs to the next await
Resume == \E p \in Procs : procs[p] # Null /\ Advance(p, procs[p])

BeginCheckStatus == \E p \in Procs, a \in CheckStatusArgs : Begin(p, "check_status", a)

BeginCodeGrant ==
    \E p \in Procs, a \in CodeGrantArgsOf(OwnerCredentials) :
        /\ Len(tokens) + Cardinality(InFlight("token")) < MaxTokens
        /\ Begin(p, "token", a)

\* the browser and the agent act while no poll or grant is in flight
Quiet == \A p \in Procs : procs[p] = Null

NextConcurrent ==
    \/ Quiet /\ Authorize
    \/ Quiet /\ Authenticate
    \/ BeginCheckStatus
    \/ BeginCodeGrant
    \/ Resume

SpecConcurrent == Init /\ [][NextConcurrent]_vars

-----------------------------------------------------------------------------
(* The same server watched over the lifetimes of its tokens: the clock is read *)
(* at the start, 100 ms before and exactly when an access token issued at the  *)
(* start expires, and 100 ms before a refresh token issued at the start does.  *)

LifetimeInstants ==
    {0, Seconds(ACCESS_TOKEN_EXPIRES_IN) - 1, Seconds(ACCESS_TOKEN_EXPIRES_IN),
     Seconds(REFRESH_TOKEN_EXPIRES_IN) - 1}

TickLifetimes ==
    /\ \E t \in LifetimeInstants : t > now /\ now' = t
    /\ UNCHANGED <<agents, clients, authRequests, authorizationCodes, tokens, refreshTokens,
                   reqCount, codeCount, procs, hist>>

NextLifetimes ==
    \/ Authorize
    \/ Authenticate
    \/ CheckStatus
    \/ CodeGrant
    \/ RefreshGrant
    \/ Introspect
    \/ Revoke
    \/ Sweep
    \/ TickLifetimes

SpecLifetimes == Init /\ [][NextLifetimes]_vars

-----------------------------------------------------------------------------
(* The same server watched until its refresh tokens expire: the clock is read  *)
(* at the start, exactly when a refresh token issued at the start expires, and *)
(* 100 ms after that.                                                          *)

ExpiryInstants ==
    {0, Seconds(REFRESH_TOKEN_EXPIRES_IN), Seconds(REFRESH_TOKEN_EXPIRES_IN) + 1}

TickExpiry ==
    /\ \E t \in ExpiryInstants : t > now /\ now' = t
    /\ UNCHANGED <<agents, clients, authRequests, authorizationCodes, tokens, refreshTokens,
                   reqCount, codeCount, procs, hist>>

NextExpiry ==
    \/ Authorize
    \/ Authenticate
    \/ CheckStatus
    \/ CodeGrant
    \/ RefreshGrant
    \/ Introspect
    \/ Revoke
    \/ Sweep
    \/ TickExpiry

SpecExpiry == Init /\ [][NextExpiry]_vars

-----------------------------------------------------------------------------
(* Two /revoke calls for the same token by its owner, in flight together or    *)
(* one after the other.  hist.round records the pair: the store before the    *)
(* first call began, the request, how many of the two calls have begun and the *)
(* responses given so far.  The other calls are made between pairs.            *)

RevocationInstants == {0, Seconds(1)}

\* a pair whose second call has not begun
RoundOpen == Has(hist, "round") /\ hist.round.begun < 2

\* a pair both of whose calls have answered
RoundComplete(hs) == Has(hs, "round") /\ Len(hs.round.answers) = 2

\* one more block of the /revoke call h of process p, within the pair round
AdvanceRevoke(p, h, round) ==
    LET r == Step(DB, now, h) IN
    /\ SetDB(r.db)
    /\ IF r.h.pc = "done"
       THEN /\ procs' = [procs EXCEPT ![p] = Null]
            /\ hist' = Merge(hist, [round |-> [round EXCEPT !.answers = Append(@, r.h.resp)]])
       ELSE /\ procs' = [procs EXCEPT ![p] = r.h]
            /\ hist' = Merge(hist, [round |-> round])
    /\ UNCHANGED now

\* the first call of a pair arrives while nothing is in flight; the second, with
\* the same request, arrives at any time after it
BeginRevoke ==
    \E a \in TokenArgsOf(OwnerCredentials) :
        IF RoundOpen /\ a = hist.round.args
        THEN /\ procs["p2"] = Null
             /\ AdvanceRevoke("p2", Frame("revoke", a), [hist.round EXCEPT !.begun = 2])
        ELSE /\ Quiet
             /\ AdvanceRevoke("p1", Frame("revoke", a),
                              [before |-> DB, args |-> a, begun |-> 1, answers |-> <<>>])

ResumeRevoke == \E p \in Procs : procs[p] # Null /\ AdvanceRevoke(p, procs[p], hist.round)

\* between pairs
Idle == Quiet /\ ~RoundOpen

TickRevocations ==
    /\ Idle
    /\ \E t \in RevocationInstants : t > now /\ now' = t
    /\ UNCHANGED <<agents, clients, authRequests, authorizationCodes, tokens, refreshTokens,
                   reqCount, codeCount, procs, hist>>

NextRevocations ==
    \/ Idle /\ Authorize
    \/ Idle /\ Authenticate
    \/ Idle /\ CodeGrant
    \/ Idle /\ RefreshGrant
    \/ TickRevocations
    \/ BeginRevoke
    \/ ResumeRevoke

SpecRevocations == Init /\ [][NextRevocations]_vars

-----------------------------------------------------------------------------
(* Authenticate calls in flight together.  hist.successes counts, for each     *)
(* request_id, the authenticate calls that answered {success: true}.  Polls    *)
(* run as whole calls between the blocks of the authenticate handlers.          *)

Successes(hs, rid) == IF Has(hs, "successes") THEN Count(hs.successes, rid) ELSE 0

ObserveAuthenticate(hs, h) ==
    IF h.resp.http = 200
    THEN Merge(hs, [successes |->
                        Put(IF Has(hs, "successes") THEN hs.successes ELSE <<>>,
                            h.args.request_id, Successes(hs, h.args.request_id) + 1)])
    ELSE hs

\* one more block of the authenticate call h of process p
AdvanceAuthenticate(p, h) ==
    LET r == Step(DB, now, h) IN
    /\ SetDB(r.db)
    /\ IF r.h.pc = "done"
       THEN procs' = [procs EXCEPT ![p] = Null] /\ hist' = ObserveAuthenticate(hist, r.h)
       ELSE procs' = [procs EXCEPT ![p] = r.h] /\ hist' = hist
    /\ UNCHANGED now

BeginAuthenticate ==
    \E p \in Procs, a \in AuthenticateArgs :
        procs[p] = Null /\ AdvanceAuthenticate(p, Frame("authenticate", a))

ResumeAuthenticate == \E p \in Procs : procs[p] # Null /\ AdvanceAuthenticate(p, procs[p])

NextAuthenticateConcurrent ==
    \/ Quiet /\ Authorize
    \/ BeginAuthenticate
    \/ ResumeAuthenticate
    \/ CheckStatus

SpecAuthenticateConcurrent == Init /\ [][NextAuthenticateConcurrent]_vars

-----------------------------------------------------------------------------
(* The server with time that keeps advancing and a sweep timer that keeps      *)
(* firing.  The clock is read at the start and 100 ms after each of two        *)
(* auth-request lifetimes; requests are made until the last of these instants. *)

CleanupInstants ==
    {0, Seconds(AUTH_REQUEST_EXPIRES_IN) + 1, 2 * (Seconds(AUTH_REQUEST_EXPIRES_IN) + 1)}

CleanupHorizon == 2 * (Seconds(AUTH_REQUEST_EXPIRES_IN) + 1)

TickCleanup ==
    /\ \E t \in CleanupInstants : t > now /\ now' = t
    /\ UNCHANGED <<agents, clients, authRequests, authorizationCodes, tokens, refreshTokens,
                   reqCount, codeCount, procs, hist>>

NextCleanup ==
    \/ now < CleanupHorizon /\ Authorize
    \/ Authenticate
    \/ CheckStatus
    \/ CodeGrant
    \/ RefreshGrant
    \/ Revoke
    \/ Sweep
    \/ TickCleanup

\* setInterval keeps firing the sweep, and time keeps passing
SpecCleanup ==
    /\ Init
    /\ [][NextCleanup]_vars
    /\ WF_vars(TickCleanup)
    /\ WF_vars(Sweep)

-----------------------------------------------------------------------------
(* Client administration.  create_client calls may be in flight together; the  *)
(* other administrative calls run as whole calls between them.  hist.created   *)
(* keeps, for each client_id, the secrets returned with 201 since the id was   *)
(* last unregistered.                                                          *)

InvalidUrl == <<"not a url", "none">>

RedirectUrisValues ==
    {[array |-> {RedirectUriOf("client_A")}], [array |-> {}], [array |-> {InvalidUrl}], [string |-> "https://site/callback"]}

\* bodies of create_client; every one names its client_id
CreateClientArgs ==
    LET name == {[client_name |-> "name_1"]}
        ids == {[client_id |-> c] : c \in {"client_A", UnknownClientId, "not a client id"}}
        uris == {[redirect_uris |-> u] : u \in RedirectUrisValues} IN
    {n @@ i @@ u : n \in name \cup {<<>>}, i \in ids, u \in uris \cup {<<>>}}

\* "client_n1" is registered in no state
UpdateClientArgs ==
    LET name == {[client_name |-> "name_2"]}
        ids == {[id |-> c] : c \in {"client_B", "client_n1"}}
        uris == {[redirect_uris |-> u] : u \in RedirectUrisValues} IN
    {n @@ i @@ u : n \in name \cup {<<>>}, i \in ids, u \in uris \cup {<<>>}}

DeleteClientArgs == {[id |-> c] : c \in {UnknownClientId, "client_n1"}}

\* the bytes the two callers draw
EntropyOf(p) == IF p = "p1" THEN "random_1" ELSE "random_2"

Created(hs, id) == IF Has(hs, "created") /\ id \in DOMAIN hs.created THEN hs.created[id] ELSE <<>>

ObserveCreateClient(hs, h) ==
    IF h.resp.http = 201
    THEN Merge(hs, [created |->
                        Put(IF Has(hs, "created") THEN hs.created ELSE <<>>,
                            h.resp.body.client_id,
                            Append(Created(hs, h.resp.body.client_id),
                                   h.resp.body.client_secret))])
    ELSE hs

\* one more block of the create_client call h of process p
AdvanceCreateClient(p, h) ==
    LET r == Step(DB, now, h) IN
    /\ SetDB(r.db)
    /\ IF r.h.pc = "done"
       THEN procs' = [procs EXCEPT ![p] = Null] /\ hist' = ObserveCreateClient(hist, r.h)
       ELSE procs' = [procs EXCEPT ![p] = r.h] /\ hist' = hist
    /\ UNCHANGED now

BeginCreateClient ==
    \E p \in Procs, b \in CreateClientArgs :
        /\ procs[p] = Null
        /\ AdvanceCreateClient(p, Frame("create_client", Merge(b, [entropy |-> EntropyOf(p)])))

ResumeCreateClient == \E p \in Procs : procs[p] # Null /\ AdvanceCreateClient(p, procs[p])

UpdateClient ==
    /\ Quiet
    /\ \E b \in UpdateClientArgs : SetDB(After(DB, now, "update_client", b))
    /\ UNCHANGED <<now, procs, hist>>

DeleteClient ==
    /\ Quiet
    /\ \E b \in DeleteClientArgs :
          /\ SetDB(After(DB, now, "delete_client", b))
          /\ hist' = IF Has(hist, "created")
                     THEN Merge(hist, [created |-> Remove(hist.created, b.id)])
                     ELSE hist
    /\ UNCHANGED <<now, procs>>

NextClients ==
    \/ BeginCreateClient
    \/ ResumeCreateClient
    \/ UpdateClient
    \/ DeleteClient

SpecClients == Init /\ [][NextClients]_vars

-----------------------------------------------------------------------------
(* Grants in flight together: authorization_code and refresh_token grants may  *)
(* interleave at their awaits.                                                 *)

\* a refresh grant may begin beside a code grant that is to store Token MaxTokens
BeginRefreshGrant ==
    \E p \in Procs, a \in RefreshGrantArgsOf(OwnerCredentials) :
        /\ Len(tokens) + Cardinality(InFlight("token")) <= MaxTokens
        /\ Begin(p, "token", a)

NextGrants ==
    \/ Quiet /\ Authorize
    \/ Quiet /\ Authenticate
    \/ BeginCodeGrant
    \/ BeginRefreshGrant
    \/ Resume

SpecGrants == Init /\ [][NextGrants]_vars

-----------------------------------------------------------------------------
(* Principals removed while their tokens are stored.  Handlers run one at a    *)
(* time.  hist.orphans holds the token_ids of the Tokens that were stored for  *)
(* a client when it was deleted.                                               *)

Orphans(hs) == IF Has(hs, "orphans") THEN hs.orphans ELSE {}

\* the registrations that may follow a deletion of client_A
RegisterAgainArgs ==
    {[client_id |-> "client_A", client_name |-> "name_1",
      redirect_uris |-> [array |-> {RedirectUriOf("client_A")}], entropy |-> e] : e \in Entropy}

RemoveClient ==
    LET r == Run(DB, now, Frame("delete_client", [id |-> "client_A"])) IN
    /\ SetDB(r.db)
    /\ hist' = IF r.h.resp.http = 200
               THEN Merge(hist, [orphans |-> Orphans(hist) \cup
                                    {i \in 1..Len(tokens) : tokens[i].client_id = "client_A"}])
               ELSE hist
    /\ UNCHANGED <<now, procs>>

RegisterAgain ==
    /\ \E b \in RegisterAgainArgs : SetDB(After(DB, now, "create_client", b))
    /\ UNCHANGED <<now, procs, hist>>

RemoveAgent ==
    /\ \E a \in AgentIds : SetDB(deleteAgent(DB, a))
    /\ UNCHANGED <<now, procs, hist>>

NextAdmin ==
    \/ Authorize
    \/ Authenticate
    \/ CodeGrant
    \/ RefreshGrant
    \/ CheckStatus
    \/ Revoke
    \/ RemoveClient
    \/ RegisterAgain
    \/ RemoveAgent

SpecAdmin == Init /\ [][NextAdmin]_vars

-----------------------------------------------------------------------------
(* Properties. *)

\* C1: handlers one at a time: once a check-status call has returned the code of
\* a request_id, that was the only call to return it, and a check-status call for
\* that request_id made now does not contain the code.
C1_CodeReturnedOnce ==
    \A rid \in DOMAIN hist.deliveries :
        /\ hist.deliveries[rid] <= 1
        /\ ~Has(Answer(DB, now, "check_status", [request_id |-> rid]).body, "code")

\* a request whose code a poll has returned, still in the store, polled again
C1_Witness ==
    \E rid \in DOMAIN hist.deliveries :
        /\ hist.deliveries[rid] = 1
        /\ rid \in DOMAIN authRequests
        /\ authRequests[rid].status = "completed"
        /\ Answer(DB, now, "check_status", [request_id |-> rid]).body = [status |-> "pending"]

\* C2: handlers in flight together: the code of a request_id is returned by at
\* most one check-status call.
C2_CodeReturnedToOnePoll ==
    \A rid \in DOMAIN hist.deliveries : hist.deliveries[rid] <= 1

\* whether client credentials verify against the registered client
CredentialsVerify(a) ==
    /\ a.client_id \in DOMAIN clients
    /\ clients[a.client_id].client_secret_hash = <<"bcrypt", a.client_secret>>

IsOAuthError(resp, http, error) ==
    /\ resp.http = http
    /\ Has(resp.body, "error")
    /\ resp.body.error = error

\* C3: handlers one at a time: once an authorization_code grant has succeeded for
\* a code, it was the only one to succeed, and a grant with that code made now,
\* by any caller with either verifier, creates no Token and no RefreshEntry and,
\* when the caller's client credentials verify, is refused with invalid_grant.
C3_CodeSingleUse ==
    \A c \in DOMAIN hist.redemptions :
        /\ Cardinality(hist.redemptions[c]) <= 1
        /\ \A a \in CodeGrantArgs :
              a.code = c =>
                LET r == Run(DB, now, Frame("token", a)) IN
                /\ r.db.tokens = tokens
                /\ r.db.refreshTokens = refreshTokens
                /\ CredentialsVerify(a) => IsOAuthError(r.h.resp, 400, "invalid_grant")

\* a code that was redeemed, presented again by the client that redeemed it with
\* the right verifier, and refused
C3_Witness ==
    \E c \in DOMAIN hist.redemptions :
        /\ Cardinality(hist.redemptions[c]) = 1
        /\ IsOAuthError(Answer(DB, now, "token",
                            [client_id |-> "client_A", client_secret |-> SecretOf("client_A"),
                             grant_type |-> "authorization_code", code |-> c,
                             code_verifier |-> "verifier_1"]),
                        400, "invalid_grant")

\* C4: handlers in flight together: the authorization_code grants made with one
\* code create at most one Token and at most one RefreshEntry.
C4_OneTokenPerCode ==
    \A c \in DOMAIN hist.redemptions :
        /\ Cardinality(hist.redemptions[c]) <= 1
        /\ Cardinality({k \in DOMAIN refreshTokens :
                           refreshTokens[k].token_id \in hist.redemptions[c]}) <= 1

\* C5: an authorization_code grant creates a Token only when the caller's client
\* credentials verify, the code maps to an AuthRequest whose stored code equals
\* the presented code, that request's client_id is the caller's, and the SHA-256
\* of the code_verifier equals the request's S256 code_challenge; the Token it
\* creates has the agent_id, model and scope of that request and the caller's
\* client_id.
C5_CodeGrantBinding ==
    \A a \in CodeGrantArgs :
        LET r == Run(DB, now, Frame("token", a)) IN
        Len(r.db.tokens) > Len(tokens) =>
            /\ CredentialsVerify(a)
            /\ a.code \in DOMAIN authorizationCodes
            /\ authorizationCodes[a.code] \in DOMAIN authRequests
            /\ LET request == authRequests[authorizationCodes[a.code]]
                   token == r.db.tokens[Len(tokens) + 1]
               IN /\ Has(request, "code")
                  /\ request.code = a.code
                  /\ request.client_id = a.client_id
                  /\ request.code_challenge_method = "S256"
                  /\ request.code_challenge = <<"sha256", a.code_verifier>>
                  /\ Len(r.db.tokens) = Len(tokens) + 1
                  /\ token.agent_id = request.agent_id
                  /\ token.model = request.model
                  /\ token.scope = request.scope
                  /\ token.client_id = a.client_id

\* an authenticated request whose code one grant redeems into a Token while a
\* grant with the other verifier and a grant of the other client are refused
C5_Witness ==
    /\ \E a \in CodeGrantArgs : Len(After(DB, now, "token", a).tokens) > Len(tokens)
    /\ \E a \in CodeGrantArgs :
          /\ CredentialsVerify(a)
          /\ a.code \in DOMAIN authorizationCodes
          /\ a.code_verifier = "wrong"
          /\ After(DB, now, "token", a).tokens = tokens
    /\ \E a \in CodeGrantArgs :
          /\ CredentialsVerify(a)
          /\ a.code \in DOMAIN authorizationCodes
          /\ a.client_id = "client_B"
          /\ a.code_verifier = "verifier_1"
          /\ After(DB, now, "token", a).tokens = tokens

\* a grant that passes every check before the PKCE check and fails that one
FailsPKCEOnly(a) ==
    /\ CredentialsVerify(a)
    /\ a.code \in DOMAIN authorizationCodes
    /\ authorizationCodes[a.code] \in DOMAIN authRequests
    /\ LET request == authRequests[authorizationCodes[a.code]] IN
       /\ Has(request, "code")
       /\ request.code = a.code
       /\ request.client_id = a.client_id
       /\ ~(request.code_challenge_method = "S256"
            /\ request.code_challenge = <<"sha256", a.code_verifier>>)

\* C6: an authorization_code grant that fails PKCE verification is refused with
\* invalid_grant and consumes the code: every grant with the same code made after
\* it, by a caller whose credentials verify and with either verifier, is refused
\* with invalid_grant.
C6_PkceFailureConsumesCode ==
    \A a \in CodeGrantArgs :
        FailsPKCEOnly(a) =>
            LET r == Run(DB, now, Frame("token", a)) IN
            /\ IsOAuthError(r.h.resp, 400, "invalid_grant")
            /\ \A b \in CodeGrantArgs :
                  (b.code = a.code /\ CredentialsVerify(b)) =>
                      IsOAuthError(Answer(r.db, now, "token", b), 400, "invalid_grant")

\* the requests another registered client, with valid credentials of its own,
\* makes about the tokens of Token record i
OtherClientsOf(i) == {c \in ValidCredentials : c.client_id # tokens[i].client_id}
TokensOf(i) == {tokens[i].access_token, tokens[i].refresh_token}

\* C7: client binding: for every Token record and every other registered client
\* presenting valid credentials of its own, that client's refresh grant with the
\* record's refresh token is refused with invalid_grant and creates no Token, its
\* introspection of the record's access or refresh token, with any hint, answers
\* exactly {active: false}, and its /revoke of either token, with any hint,
\* leaves every Token and RefreshEntry as it was.
C7_ClientBinding ==
    \A i \in 1..Len(tokens) : \A c \in OtherClientsOf(i) :
        /\ LET r == Run(DB, now, Frame("token",
                        Merge(c, [grant_type |-> "refresh_token",
                                  refresh_token |-> tokens[i].refresh_token])))
           IN /\ IsOAuthError(r.h.resp, 400, "invalid_grant")
              /\ r.db.tokens = tokens
              /\ r.db.refreshTokens = refreshTokens
        /\ \A k \in TokensOf(i), hint \in TokenHints :
              LET a == Merge(Merge(c, [token |-> k]), hint) IN
              /\ Answer(DB, now, "introspect", a) = [http |-> 200, body |-> [active |-> FALSE]]
              /\ After(DB, now, "revoke", a).tokens = tokens
              /\ After(DB, now, "revoke", a).refreshTokens = refreshTokens

\* a Token record whose owner would be answered active for both tokens, would be
\* granted a refresh, and could revoke it
C7_Witness ==
    \E i \in 1..Len(tokens) :
        LET owner == [client_id |-> tokens[i].client_id,
                      client_secret |-> SecretOf(tokens[i].client_id)] IN
        /\ OtherClientsOf(i) # {}
        /\ Len(tokens) >= 2
        /\ Answer(DB, now, "introspect",
                  Merge(owner, [token |-> tokens[i].access_token])).body.active
        /\ Answer(DB, now, "introspect",
                  Merge(owner, [token |-> tokens[i].refresh_token,
                                token_type_hint |-> "refresh_token"])).body.active
        /\ Answer(DB, now, "token",
                  Merge(owner, [grant_type |-> "refresh_token",
                                refresh_token |-> tokens[i].refresh_token])).http = 200
        /\ After(DB, now, "revoke",
                 Merge(owner, [token |-> tokens[i].access_token])).tokens # tokens

\* the credentials of the client a Token record or RefreshEntry was issued to
OwnerOf(entry) == [client_id |-> entry.client_id, client_secret |-> SecretOf(entry.client_id)]

\* the Token records issued through refresh token k: the code grant's and the
\* refresh grants'
IssuedThrough(k) == {i \in 1..Len(tokens) : tokens[i].refresh_token = k}

InactiveResponse == [http |-> 200, body |-> [active |-> FALSE]]

\* C8: after a code grant and one or more refresh grants with its refresh token,
\* once the owning client has revoked that refresh token via /revoke (no hint or
\* hint refresh_token), the owner's introspection of every access token issued
\* through that refresh token, and of the refresh token, answers {active: false}.
C8_RefreshRevocationReachesEveryAccessToken ==
    \A k \in DOMAIN refreshTokens :
        Cardinality(IssuedThrough(k)) >= 2 =>
            \A hint \in {<<>>, [token_type_hint |-> "refresh_token"]} :
                LET owner == OwnerOf(refreshTokens[k])
                    revoked == After(DB, now, "revoke", Merge(Merge(owner, [token |-> k]), hint))
                IN /\ \A i \in IssuedThrough(k) :
                         Answer(revoked, now, "introspect",
                                Merge(owner, [token |-> tokens[i].access_token]))
                           = InactiveResponse
                   /\ \A h \in {<<>>, [token_type_hint |-> "refresh_token"]} :
                         Answer(revoked, now, "introspect",
                                Merge(Merge(owner, [token |-> k]), h))
                           = InactiveResponse

\* a refresh grant with refresh token k by any caller whose credentials verify is
\* refused with invalid_grant, and creates no Token
RefreshRefused(db, k) ==
    \A c \in ValidCredentials :
        LET r == Run(db, now, Frame("token",
                     Merge(c, [grant_type |-> "refresh_token", refresh_token |-> k])))
        IN /\ IsOAuthError(r.h.resp, 400, "invalid_grant")
           /\ r.db.tokens = db.tokens

\* what the owner's /revoke of the access token of Token record i (no hint or
\* hint access_token) leaves behind: the Token record the store finds for that
\* access token is revoked and so is the RefreshEntry of its refresh token, the
\* owner's introspection of the access token answers {active: false}, and
\* refresh grants with that refresh token are refused
AccessRevocationTakesEffect ==
    \A i \in 1..Len(tokens) : \A hint \in {<<>>, [token_type_hint |-> "access_token"]} :
        LET owner == OwnerOf(tokens[i])
            token == tokens[i].access_token
            revoked == After(DB, now, "revoke", Merge(Merge(owner, [token |-> token]), hint))
            found == getTokenByAccessToken(revoked, token)
        IN /\ found # Null
           /\ found.revoked
           /\ found.refresh_token \in DOMAIN revoked.refreshTokens
                 => revoked.refreshTokens[found.refresh_token].revoked
           /\ \A h \in {<<>>, [token_type_hint |-> "access_token"]} :
                 Answer(revoked, now, "introspect", Merge(Merge(owner, [token |-> token]), h))
                   = InactiveResponse
           /\ RefreshRefused(revoked, found.refresh_token)

\* whatever the time and whatever else the store holds: a revoked Token record
\* makes the owner's introspection of its access token answer {active: false},
\* and a revoked RefreshEntry makes refresh grants with it be refused
RevocationIsObserved ==
    /\ \A i \in 1..Len(tokens) :
          getTokenByAccessToken(DB, tokens[i].access_token).revoked =>
              Answer(DB, now, "introspect",
                     Merge(OwnerOf(tokens[i]), [token |-> tokens[i].access_token]))
                = InactiveResponse
    /\ \A k \in DOMAIN refreshTokens :
          refreshTokens[k].revoked => RefreshRefused(DB, k)

\* no step clears a revoked flag, removes a Token record, or brings back a
\* RefreshEntry that is gone
RevocationIsKept ==
    /\ Len(tokens') >= Len(tokens)
    /\ \A i \in 1..Len(tokens) : tokens[i].revoked => tokens'[i].revoked
    /\ \A i \in 1..Len(tokens) :
          LET k == tokens[i].refresh_token IN
          /\ (k \in DOMAIN refreshTokens /\ refreshTokens[k].revoked /\ k \in DOMAIN refreshTokens')
                => refreshTokens'[k].revoked
          /\ k \notin DOMAIN refreshTokens => k \notin DOMAIN refreshTokens'

AllowedTransitions ==
    {<<"pending", "authenticated">>, <<"pending", "error">>, <<"pending", "expired">>,
     <<"authenticated", "completed">>}

\* C10: handlers one at a time: in every step of authorize, authenticate,
\* check-status, token exchange and sweep, a request that is still stored keeps
\* its status or changes it by pending -> authenticated, pending -> error,
\* pending -> expired or authenticated -> completed; completed, expired and error
\* are never left.
C10_StatusTransitions ==
    [][\A rid \in DOMAIN authRequests \cap DOMAIN authRequests' :
          \/ authRequests'[rid].status = authRequests[rid].status
          \/ <<authRequests[rid].status, authRequests'[rid].status>> \in AllowedTransitions]_vars

\* C11: TTL honoring: for every stored AuthRequest whose expires_at has passed,
\* swept or not, no authenticate call binds a code to the request and no
\* check-status call returns the request's code.
C11_ExpiredRequestYieldsNoCode ==
    \A rid \in DOMAIN authRequests :
        authRequests[rid].expires_at < now =>
            /\ \A c \in AgentCredentials :
                  LET after == After(DB, now, "authenticate",
                                     Merge(c, [request_id |-> rid, model |-> "model_1"]))
                  IN /\ after.authorizationCodes = authorizationCodes
                     /\ Has(after.authRequests[rid], "code") = Has(authRequests[rid], "code")
            /\ ~Has(Answer(DB, now, "check_status", [request_id |-> rid]).body, "code")

\* C12: for a pending AuthRequest past its expires_at that has not been swept,
\* an authenticate call is refused with request_expired (HTTP 400) and moves the
\* request to expired, and a check-status call made after it for that request_id
\* answers status "error".
C12_ExpiredRequestScenario ==
    \A rid \in DOMAIN authRequests :
        (authRequests[rid].status = "pending" /\ authRequests[rid].expires_at < now) =>
            \A c \in AgentCredentials :
                LET r == Run(DB, now, Frame("authenticate",
                             Merge(c, [request_id |-> rid, model |-> "model_1"])))
                IN /\ IsOAuthError(r.h.resp, 400, "request_expired")
                   /\ r.db.authRequests[rid].status = "expired"
                   /\ Answer(r.db, now, "check_status", [request_id |-> rid]).body.status = "error"

\* the authenticate calls made for request rid
AuthenticateArgsFor(rid) ==
    {Merge(c, [request_id |-> rid, model |-> "model_1"]) : c \in AgentCredentials}

\* the agent credentials of an authenticate call verify
AgentVerifies(a) ==
    /\ a.agent_id \in DOMAIN agents
    /\ agents[a.agent_id].agent_secret_hash = <<"bcrypt", a.agent_secret>>

\* a request ended without a code: in status error or expired, no code stored
EndedWithoutCode(request) ==
    /\ request.status \in {"error", "expired"}
    /\ ~Has(request, "code")

\* an authenticate call with credentials that do not verify, on a pending request
\* that has not expired, answers invalid_client and leaves the request in status
\* error with error "Invalid agent credentials" and without a code
FailedAttemptEndsRequest ==
    \A rid \in DOMAIN authRequests :
        (authRequests[rid].status = "pending" /\ ~(authRequests[rid].expires_at < now)) =>
            \A a \in AuthenticateArgsFor(rid) :
                ~AgentVerifies(a) =>
                    LET r == Run(DB, now, Frame("authenticate", a)) IN
                    /\ IsOAuthError(r.h.resp, 401, "invalid_client")
                    /\ r.db.authRequests[rid].status = "error"
                    /\ r.db.authRequests[rid].error = "Invalid agent credentials"
                    /\ EndedWithoutCode(r.db.authRequests[rid])
                    /\ r.db.authorizationCodes = authorizationCodes

\* every authenticate call for a request that ended without a code, also one with
\* valid credentials, is refused and binds no code; no code maps to the request
EndedRequestTakesNoCode ==
    \A rid \in DOMAIN authRequests :
        EndedWithoutCode(authRequests[rid]) =>
            /\ \A c \in DOMAIN authorizationCodes : authorizationCodes[c] # rid
            /\ \A a \in AuthenticateArgsFor(rid) :
                  LET r == Run(DB, now, Frame("authenticate", a)) IN
                  /\ r.h.resp.http \in {400, 401}
                  /\ Has(r.h.resp.body, "error")
                  /\ r.db.authorizationCodes = authorizationCodes
                  /\ ~Has(r.db.authRequests[rid], "code")

\* a request that ended without a code stays so for as long as it is stored
EndedRequestStaysEnded ==
    \A rid \in DOMAIN authRequests \cap DOMAIN authRequests' :
        EndedWithoutCode(authRequests[rid]) => EndedWithoutCode(authRequests'[rid])

\* C13: handlers one at a time: an authenticate call on a pending, unexpired
\* request that fails for its agent credentials answers invalid_client and leaves
\* the request in status error with error "Invalid agent credentials"; every
\* later authenticate call for that request_id, also one with valid credentials,
\* is refused without binding a code, and no code is ever bound to the request.
C13_OneShotFailure ==
    /\ [](FailedAttemptEndsRequest /\ EndedRequestTakesNoCode)
    /\ [][EndedRequestStaysEnded]_vars

\* a request in status error after a failed attempt, still within its TTL, for
\* which an authenticate call with valid credentials is refused
C13_Witness ==
    \E rid \in DOMAIN authRequests :
        /\ authRequests[rid].status = "error"
        /\ authRequests[rid].error = "Invalid agent credentials"
        /\ ~(authRequests[rid].expires_at < now)
        /\ IsOAuthError(Answer(DB, now, "authenticate",
                               [agent_id |-> "agent_1", agent_secret |-> SecretOf("agent_1"),
                                request_id |-> rid, model |-> "model_1"]),
                        400, "invalid_request")

\* the token values presented to introspection as access tokens: every issued
\* access token, the same with another signature and with another issuer, every
\* issued refresh token and a value that was never issued
IntrospectedTokens ==
    IssuedAccessTokens
    \cup {[k EXCEPT !.sig = "another-secret"] : k \in IssuedAccessTokens}
    \cup {[k EXCEPT !.iss = "another-issuer"] : k \in IssuedAccessTokens}
    \cup IssuedRefreshTokens \cup {BogusToken}

\* the JWT k verifies now (HS256 signature, configured issuer, exp > now), the
\* first Token record stored for the string k is not revoked and belongs to
\* client_id
ShouldBeActive(k, client_id) ==
    LET hits == {i \in 1..Len(tokens) : tokens[i].access_token = k} IN
    /\ DOMAIN k = {"sub", "client_id", "model", "scope", "iat", "exp", "iss", "sig"}
    /\ k.sig = JWT_SECRET
    /\ k.iss = JWT_ISSUER
    /\ k.exp > now \div UnitsPerSecond
    /\ hits # {}
    /\ LET record == tokens[CHOOSE i \in hits : \A j \in hits : i <= j] IN
       /\ ~record.revoked
       /\ record.client_id = client_id

HappyAuthorize ==
    Run(DB, now, Frame("authorize",
        [client_id |-> "client_A", redirect_uri |-> RedirectUriOf("client_A"),
         state |-> "state_1", code_challenge |-> <<"sha256", "verifier_1">>,
         code_challenge_method |-> "S256", response_type |-> "code"]))

HappyAuthenticate ==
    Run(HappyAuthorize.db, now, Frame("authenticate",
        [request_id |-> HappyAuthorize.h.resp.body.request_id, agent_id |-> "agent_1",
         agent_secret |-> SecretOf("agent_1"), model |-> "model_1"]))

HappyPoll ==
    Run(HappyAuthenticate.db, now, Frame("check_status",
        [request_id |-> HappyAuthorize.h.resp.body.request_id]))

HappyGrant ==
    Run(HappyPoll.db, now, Frame("token",
        [client_id |-> "client_A", client_secret |-> SecretOf("client_A"),
         grant_type |-> "authorization_code", code |-> HappyPoll.h.resp.body.code,
         code_verifier |-> "verifier_1"]))

HappyIntrospect ==
    Run(HappyGrant.db, now, Frame("introspect",
        [client_id |-> "client_A", client_secret |-> SecretOf("client_A"),
         token |-> HappyGrant.h.resp.body.access_token]))

C16_RefreshNotRotated ==
    \A a \in RefreshGrantArgs :
        LET r == Run(DB, now, Frame("token", a)) IN
        r.h.resp.http = 200 =>
            LET entry == refreshTokens[a.refresh_token]
                original == tokens[entry.token_id]
                new == r.db.tokens[Len(tokens) + 1]
            IN /\ r.h.resp.body.refresh_token = a.refresh_token
               /\ r.db.refreshTokens = refreshTokens
               /\ Len(r.db.tokens) = Len(tokens) + 1
               /\ SubSeq(r.db.tokens, 1, Len(tokens)) = tokens
               /\ \A i \in 1..Len(tokens) : tokens[i].token_id # new.token_id
               /\ new.refresh_token = a.refresh_token
               /\ new.agent_id = original.agent_id
               /\ new.client_id = original.client_id
               /\ new.model = original.model
               /\ new.scope = original.scope
               /\ new.refresh_token_expires_at = entry.expires_at
               /\ r.h.resp.body.access_token = new.access_token

\* a refresh grant that succeeds some time after the code grant that made the
\* refresh token
C16_Witness ==
    \E a \in RefreshGrantArgs :
        /\ Answer(DB, now, "token", a).http = 200
        /\ refreshTokens[a.refresh_token].expires_at < now + Seconds(REFRESH_TOKEN_EXPIRES_IN)
        /\ Len(tokens) >= 1

\* C17: every stored Token, made by the authorization_code grant or by a refresh
\* grant at any time before the refresh token expires, has
\* access_token_expires_at > created_at and
\* refresh_token_expires_at >= access_token_expires_at.
C17_TokenExpiryOrder ==
    \A i \in 1..Len(tokens) :
        /\ tokens[i].access_token_expires_at > tokens[i].created_at
        /\ tokens[i].refresh_token_expires_at >= tokens[i].access_token_expires_at

\* C18: a code -> request_id entry is stored exactly when the AuthRequest
\* request_id is stored with that code as its stored code (it was moved to
\* authenticated and no token exchange has consumed it); no code entry refers
\* to a request that is not stored.
C18_CodeEntryIffRequest ==
    /\ \A c \in DOMAIN authorizationCodes :
          /\ authorizationCodes[c] \in DOMAIN authRequests
          /\ Has(authRequests[authorizationCodes[c]], "code")
          /\ authRequests[authorizationCodes[c]].code = c
    /\ \A rid \in DOMAIN authRequests :
          Has(authRequests[rid], "code") =>
              /\ authRequests[rid].code \in DOMAIN authorizationCodes
              /\ authorizationCodes[authRequests[rid].code] = rid

\* the /revoke calls: every token value with every hint, and a call without the
\* token field, by every caller
RevokeArgs ==
    TokenArgs \cup {[client_id |-> c.client_id, client_secret |-> c.client_secret] :
                       c \in ClientCredentials}

\* the token value is the access token of a revoked Token record or the refresh
\* token of a revoked RefreshEntry
AlreadyRevoked(k) ==
    \/ \E i \in 1..Len(tokens) :
          /\ tokens[i].access_token = k
          /\ \A j \in 1..(i - 1) : tokens[j].access_token # k
          /\ tokens[i].revoked
    \/ k \in DOMAIN refreshTokens /\ refreshTokens[k].revoked

\* the token value is no stored token of the caller
NotOwnTokenOf(k, client_id) ==
    /\ \A i \in 1..Len(tokens) : tokens[i].access_token = k => tokens[i].client_id # client_id
    /\ k \in DOMAIN refreshTokens => refreshTokens[k].client_id # client_id

\* C19: for a caller whose client credentials verify, /revoke answers HTTP 200
\* with an empty body for every token value; when the token is unknown,
\* malformed, already revoked or another client's, no Token and no RefreshEntry
\* changes.
C19_RevokeAlwaysOk ==
    \A a \in RevokeArgs :
        CredentialsVerify(a) =>
            LET r == Run(DB, now, Frame("revoke", a)) IN
            /\ r.h.resp.http = 200
            /\ DOMAIN r.h.resp.body = {}
            /\ (~Has(a, "token") \/ NotOwnTokenOf(a.token, a.client_id) \/ AlreadyRevoked(a.token))
                  => /\ r.db.tokens = tokens
                     /\ r.db.refreshTokens = refreshTokens

\* /revoke calls whose client credentials are missing, with and without a token
RevokeArgsWithoutCredentials ==
    {[token |-> k] : k \in PresentedTokens}
    \cup {[token |-> k, client_id |-> "client_A"] : k \in PresentedTokens}
    \cup {<<>>}

\* the client credentials of a call are missing, name an unknown client, or carry
\* a wrong secret
CredentialsFail(a) ==
    \/ ~Has(a, "client_id")
    \/ ~Has(a, "client_secret")
    \/ ~CredentialsVerify(a)

\* C20: every /revoke call whose client credentials are missing, name an unknown
\* client or carry a wrong secret answers invalid_client (HTTP 401) and changes
\* no Token and no RefreshEntry, whatever its other fields, a missing token field
\* included.
C20_RevokeRequiresClient ==
    \A a \in RevokeArgs \cup RevokeArgsWithoutCredentials :
        CredentialsFail(a) =>
            LET r == Run(DB, now, Frame("revoke", a)) IN
            /\ IsOAuthError(r.h.resp, 401, "invalid_client")
            /\ r.db.tokens = tokens
            /\ r.db.refreshTokens = refreshTokens

\* C21: a check-status call answers {status: "pending"} only when the stored
\* AuthRequest is in status pending and not past its expires_at; for a request
\* in status completed, expired or error it never answers {status: "pending"}.
C21_PendingOnlyWhilePending ==
    \A rid \in DOMAIN authRequests :
        Answer(DB, now, "check_status", [request_id |-> rid]).body = [status |-> "pending"]
            => /\ authRequests[rid].status = "pending"
               /\ ~(authRequests[rid].expires_at < now)

\* the RefreshEntry of refresh token k is missing, revoked or past its expires_at
\* in the store rts at time t
RefreshDead(rts, k, t) ==
    \/ k \notin DOMAIN rts
    \/ rts[k].revoked
    \/ rts[k].expires_at < t

\* a refresh grant by a caller whose credentials verify, with a refresh token
\* that is unknown, revoked, past its expires_at or another client's, is refused
\* with invalid_grant and leaves the whole store as it was
DeadRefreshIsRefused ==
    \A c \in ValidCredentials, k \in PresentedRefreshTokens :
        (RefreshDead(refreshTokens, k, now) \/ refreshTokens[k].client_id # c.client_id) =>
            LET r == Run(DB, now, Frame("token",
                         Merge(c, [grant_type |-> "refresh_token", refresh_token |-> k])))
            IN /\ IsOAuthError(r.h.resp, 400, "invalid_grant")
               /\ r.db = DB

\* a refresh token that was issued and whose RefreshEntry is missing, revoked or
\* expired stays so in every step
DeadRefreshStaysDead ==
    \A k \in IssuedRefreshTokens :
        RefreshDead(refreshTokens, k, now) => RefreshDead(refreshTokens', k, now')

\* C22: handlers one at a time: a refresh grant whose refresh token is unknown,
\* revoked, past its expires_at (swept or not) or bound to another client answers
\* invalid_grant and leaves the store unchanged; once a RefreshEntry is revoked
\* or expired, no later refresh grant with it succeeds.
C22_DeadRefreshTokenRefused ==
    /\ []DeadRefreshIsRefused
    /\ [][DeadRefreshStaysDead]_vars

\* a refresh token past its expires_at whose RefreshEntry is still stored and not
\* revoked, refused to its owner
C22_Witness ==
    \E k \in DOMAIN refreshTokens :
          /\ refreshTokens[k].expires_at < now
          /\ ~refreshTokens[k].revoked
          /\ IsOAuthError(Answer(DB, now, "token",
                                 Merge(OwnerOf(refreshTokens[k]),
                                       [grant_type |-> "refresh_token", refresh_token |-> k])),
                          400, "invalid_grant")

\* the store variables after a step
DBAfterStep ==
    [agents |-> agents', clients |-> clients', authRequests |-> authRequests',
     authorizationCodes |-> authorizationCodes', tokens |-> tokens',
     refreshTokens |-> refreshTokens', reqCount |-> reqCount', codeCount |-> codeCount']

OkEmpty(resp) == resp.http = 200 /\ DOMAIN resp.body = {}

\* when the second of two /revoke calls for one token by its owner answers, the
\* store is what one such call alone would have left, and both answered 200
RevokedTwiceAsOnce ==
    (~RoundComplete(hist) /\ RoundComplete(hist')) =>
        /\ DBAfterStep = After(hist'.round.before, now, "revoke", hist'.round.args)
        /\ \A i \in 1..2 : OkEmpty(hist'.round.answers[i])

\* C23: revocation is idempotent: for every token and every store, two /revoke
\* calls for that token by the owning client, one after the other or in flight
\* together, leave the store as one such call leaves it, and both answer 200.
C23_RevocationIdempotent ==
    [][RevokedTwiceAsOnce]_vars

\* two /revoke calls for one token in flight together, the first having revoked
\* the Token record while the second is between its lookup and its own write
C23_Witness ==
    /\ procs["p1"] # Null
    /\ procs["p2"] # Null
    /\ procs["p1"].pc \in {"access_revoked_token", "refresh_revoked_entry"}
    /\ procs["p2"].pc \in {"access_got_token", "refresh_got_entry"}
    /\ hist.round.before # DB

\* a well-formed /authorize request of client_A
GoodAuthorizeArgs ==
    [client_id |-> "client_A", redirect_uri |-> RedirectUriOf("client_A"),
     state |-> "state_1", code_challenge |-> <<"sha256", "verifier_1">>,
     code_challenge_method |-> "S256", response_type |-> "code"]

Without(r, f) == [x \in DOMAIN r \ {f} |-> r[x]]

\* the /authorize requests examined: the well-formed one, with and without a
\* scope; the same with each parameter left out in turn; with another
\* response_type; with a client_id that is not registered and with one that is
\* malformed; with a redirect_uri that is registered for another client, one that
\* is registered for none and one that is no URL; with code_challenge_method plain
ExaminedAuthorizeArgs ==
    {GoodAuthorizeArgs, Merge(GoodAuthorizeArgs, [scope |-> "profile"])}
    \cup {Without(GoodAuthorizeArgs, f) : f \in DOMAIN GoodAuthorizeArgs}
    \cup {[GoodAuthorizeArgs EXCEPT !.response_type = "token"],
          [GoodAuthorizeArgs EXCEPT !.client_id = UnknownClientId],
          [GoodAuthorizeArgs EXCEPT !.client_id = "not a client id"],
          [GoodAuthorizeArgs EXCEPT !.redirect_uri = RedirectUriOf("client_B")],
          [GoodAuthorizeArgs EXCEPT !.redirect_uri = OtherRedirectUri],
          [GoodAuthorizeArgs EXCEPT !.redirect_uri = <<"not a url", "none">>],
          [GoodAuthorizeArgs EXCEPT !.code_challenge_method = "plain"]}

\* the conditions under which an /authorize request is to be accepted
AuthorizeAcceptable(q) ==
    /\ {"response_type", "client_id", "redirect_uri", "state", "code_challenge",
        "code_challenge_method"} \subseteq DOMAIN q
    /\ q.response_type = "code"
    /\ q.client_id \in DOMAIN clients
    /\ q.redirect_uri \in clients[q.client_id].allowed_redirect_uris
    /\ q.code_challenge_method = "S256"

\* an acceptable /authorize request adds one AuthRequest, pending, expiring 600 s
\* after now, and changes nothing else; every other request is answered with the
\* error page and leaves the store as it was
AuthorizeValidates ==
    \A q \in ExaminedAuthorizeArgs :
        LET r == Run(DB, now, Frame("authorize", q)) IN
        IF AuthorizeAcceptable(q)
        THEN LET rid == r.h.resp.body.request_id IN
             /\ r.h.resp.body.html = "spinning"
             /\ rid \notin DOMAIN authRequests
             /\ DOMAIN r.db.authRequests = DOMAIN authRequests \cup {rid}
             /\ \A x \in DOMAIN authRequests : r.db.authRequests[x] = authRequests[x]
             /\ r.db.authRequests[rid].status = "pending"
             /\ r.db.authRequests[rid].created_at = now
             /\ r.db.authRequests[rid].expires_at = now + AUTH_REQUEST_EXPIRES_IN * UnitsPerSecond
             /\ r.db.authRequests[rid].client_id = q.client_id
             /\ r.db.authRequests[rid].redirect_uri = q.redirect_uri
             /\ r.db.authRequests[rid].code_challenge = q.code_challenge
             /\ r.db.authRequests[rid].code_challenge_method = "S256"
        ELSE /\ r.h.resp.http = 200
             /\ r.h.resp.body.html = "error"
             /\ r.db = DB

\* C24: /authorize creates an AuthRequest only when response_type is code, all of
\* client_id, redirect_uri, state, code_challenge and code_challenge_method are
\* present, the client resolves, redirect_uri is one of the client's
\* allowed_redirect_uris and code_challenge_method is S256; every other request
\* is answered with an error page and leaves the store unchanged.  Every stored
\* AuthRequest has code_challenge_method S256 and
\* expires_at = created_at + 600 s, and is created in status pending.
C24_AuthorizeValidation ==
    /\ AuthorizeValidates
    /\ \A rid \in DOMAIN authRequests :
          /\ authRequests[rid].code_challenge_method = "S256"
          /\ authRequests[rid].expires_at
                = authRequests[rid].created_at + AUTH_REQUEST_EXPIRES_IN * UnitsPerSecond
          /\ authRequests[rid].redirect_uri
                \in clients[authRequests[rid].client_id].allowed_redirect_uris

\* a request stored by an accepted /authorize call, with the requests without a
\* state, with method plain and with an unregistered redirect_uri all answered
\* with the error page
C24_Witness ==
    /\ \E rid \in DOMAIN authRequests : authRequests[rid].status = "pending"
    /\ \A q \in {Without(GoodAuthorizeArgs, "state"),
                 [GoodAuthorizeArgs EXCEPT !.code_challenge_method = "plain"],
                 [GoodAuthorizeArgs EXCEPT !.redirect_uri = OtherRedirectUri]} :
          Answer(DB, now, "authorize", q).body.html = "error"

\* no request in status error or completed goes back to authenticated
NoReturnToAuthenticated ==
    \A rid \in DOMAIN authRequests \cap DOMAIN authRequests' :
        authRequests[rid].status \in {"error", "completed"}
            => authRequests'[rid].status # "authenticated"

\* no code bound to a request in status error can be exchanged for a token
NoCodeOnFailedRequest ==
    \A c \in DOMAIN authorizationCodes :
        LET rid == authorizationCodes[c] IN
        (rid \in DOMAIN authRequests /\ authRequests[rid].status = "error") =>
            \A a \in CodeGrantArgs :
                a.code = c => Answer(DB, now, "token", a).http # 200

\* at most one authenticate call for a request_id answers {success: true}
AtMostOneSuccess ==
    \A rid \in IssuedRequestIds : Successes(hist, rid) <= 1

\* C25: authenticate calls for one pending request in flight together, one with
\* valid and one with invalid credentials or both valid, behave as if run one
\* after the other: the request never goes from error or completed back to
\* authenticated, a request in status error never has an exchangeable code bound
\* to it, and at most one of the calls answers success.
C25_AuthenticateLinearizable ==
    /\ [](NoCodeOnFailedRequest /\ AtMostOneSuccess)
    /\ [][NoReturnToAuthenticated]_vars

\* the authorization_code grants made with the codes drawn so far in store db
CodeGrantArgsIn(db) ==
    {Merge(c, [grant_type |-> "authorization_code", code |-> [code |-> n], code_verifier |-> v]) :
        c \in ClientCredentials, n \in 0..db.codeCount, v \in Verifiers}

\* what a successful authorization_code grant changes in store db
CodeGrantFrameIn(db) ==
    \A a \in CodeGrantArgsIn(db) :
        LET r == Run(db, now, Frame("token", a)) IN
        r.h.resp.http = 200 =>
            LET rid == db.authorizationCodes[a.code]
                token == r.db.tokens[Len(db.tokens) + 1]
                k == token.refresh_token
            IN /\ DOMAIN r.db.authorizationCodes = DOMAIN db.authorizationCodes \ {a.code}
               /\ \A c \in DOMAIN r.db.authorizationCodes :
                     r.db.authorizationCodes[c] = db.authorizationCodes[c]
               /\ DOMAIN r.db.authRequests = DOMAIN db.authRequests \ {rid}
               /\ \A x \in DOMAIN r.db.authRequests : r.db.authRequests[x] = db.authRequests[x]
               /\ Len(r.db.tokens) = Len(db.tokens) + 1
               /\ \A i \in 1..Len(db.tokens) : r.db.tokens[i] = db.tokens[i]
               /\ \A i \in 1..Len(db.tokens) : db.tokens[i].token_id # token.token_id
               /\ k \notin DOMAIN db.refreshTokens
               /\ DOMAIN r.db.refreshTokens = DOMAIN db.refreshTokens \cup {k}
               /\ \A x \in DOMAIN db.refreshTokens : r.db.refreshTokens[x] = db.refreshTokens[x]
               /\ r.db.refreshTokens[k].refresh_token = k
               /\ r.db.refreshTokens[k].token_id = token.token_id
               /\ r.db.agents = db.agents
               /\ r.db.clients = db.clients

\* C26: handlers one at a time: a successful authorization_code grant removes
\* the code mapping and its AuthRequest, adds exactly one Token and exactly one
\* RefreshEntry that share the new token_id and refresh_token, and leaves agents,
\* clients and every other AuthRequest, code, Token and RefreshEntry as they
\* were; in the store as it is, and in the store after one more request has been
\* authorized and authenticated.
C26_CodeGrantFrame ==
    /\ CodeGrantFrameIn(DB)
    /\ CodeGrantFrameIn(HappyAuthenticate.db)

\* a grant has succeeded and its Token and RefreshEntry are stored; the code of
\* one more authenticated request would be redeemed next to them
C26_Witness ==
    /\ hist.redemptions # <<>>
    /\ Len(tokens) >= 1
    /\ refreshTokens # <<>>
    /\ authorizationCodes = <<>>
    /\ \E a \in CodeGrantArgsIn(HappyAuthenticate.db) :
          Answer(HappyAuthenticate.db, now, "token", a).http = 200

\* the handler of process p has just run a block and is still in flight
RanBlock(p) == procs'[p] # Null /\ procs'[p] # procs[p]

\* the block removed a code mapping
RemovedCode == \E c \in DOMAIN authorizationCodes : c \notin DOMAIN authorizationCodes'

\* the Token and the RefreshEntry of the grant h are stored after the step
GrantPersisted(h) ==
    /\ Has(h, "tokenId")
    /\ h.tokenId \in 1..Len(tokens')
    /\ h.refreshTokenValue \in DOMAIN refreshTokens'

\* C27: in the authorization_code grant the deletion of the code mapping is the
\* last store mutation of the handler: when a grant handler removes the code
\* mapping, its Token and RefreshEntry are stored, and what is left of the
\* handler changes nothing in the store.
C27_CodeDeletedLast ==
    [][\A p \in Procs :
          (RanBlock(p) /\ procs'[p].op = "token" /\ RemovedCode) =>
              /\ GrantPersisted(procs'[p])
              /\ Run(DBAfterStep, now', procs'[p]).db = DBAfterStep]_vars

\* what one sweep at the present instant does to store db
SweepFrameIn(db) ==
    LET swept == cleanupExpired(db, now) IN
    /\ DOMAIN swept.authRequests
          = {rid \in DOMAIN db.authRequests : db.authRequests[rid].expires_at >= now}
    /\ \A rid \in DOMAIN swept.authRequests : swept.authRequests[rid] = db.authRequests[rid]
    /\ DOMAIN swept.refreshTokens
          = {k \in DOMAIN db.refreshTokens : db.refreshTokens[k].expires_at >= now}
    /\ \A k \in DOMAIN swept.refreshTokens : swept.refreshTokens[k] = db.refreshTokens[k]
    /\ swept.tokens = db.tokens
    /\ swept.agents = db.agents
    /\ swept.clients = db.clients

\* C28: one sweep at time now removes exactly the AuthRequests with
\* expires_at < now and exactly the RefreshEntries with expires_at < now, and
\* leaves every unexpired AuthRequest and RefreshEntry, every Token, every agent
\* and every client as it was; in the store as it is, and in the store after one
\* more request has been authenticated or redeemed.
C28_SweepFrame ==
    /\ SweepFrameIn(DB)
    /\ SweepFrameIn(HappyAuthenticate.db)
    /\ SweepFrameIn(HappyGrant.db)

\* a sweep has removed the RefreshEntry of a stored Token after it expired, and
\* a sweep now would keep the RefreshEntry of a fresh grant
C28_Witness ==
    /\ Len(tokens) >= 1
    /\ tokens[1].refresh_token \notin DOMAIN refreshTokens
    /\ tokens[1].refresh_token_expires_at < now
    /\ DOMAIN cleanupExpired(HappyGrant.db, now).refreshTokens # {}

\* every AuthRequest that is stored is eventually removed from the store
RequestsAreRemoved ==
    \A n \in 1..MaxRequests :
        ([req |-> n] \in DOMAIN authRequests) ~> ([req |-> n] \notin DOMAIN authRequests)

\* every code mapping that is stored is eventually removed from the store
CodesAreRemoved ==
    \A n \in 1..MaxRequests :
        ([code |-> n] \in DOMAIN authorizationCodes)
            ~> ([code |-> n] \notin DOMAIN authorizationCodes)

\* C29: with time that keeps advancing and a sweep that keeps being run, every
\* AuthRequest that is created is eventually removed from the store, and every
\* authorization-code mapping that is created is eventually removed as well.
C29_CleanupLiveness ==
    RequestsAreRemoved /\ CodesAreRemoved

\* a Token record stays stored, and a revoked flag that is true stays true, on
\* Token records and on RefreshEntries for as long as they are stored; a
\* RefreshEntry that was removed does not come back
RevokedFlagsStay ==
    /\ Len(tokens') >= Len(tokens)
    /\ \A i \in 1..Len(tokens) : tokens[i].revoked => tokens'[i].revoked
    /\ \A k \in DOMAIN refreshTokens \cap DOMAIN refreshTokens' :
          refreshTokens[k].revoked => refreshTokens'[k].revoked
    /\ \A k \in IssuedRefreshTokens :
          k \notin DOMAIN refreshTokens => k \notin DOMAIN refreshTokens'

\* the access token k is answered {active: false} to client credentials c in
\* store db at time t
AnsweredInactive(db, t, c, k) ==
    Answer(db, t, "introspect", Merge(c, [token |-> k])) = InactiveResponse

\* an access token answered {active: false} while the Token record found for it
\* is revoked is answered {active: false} after the step as well, to every client
InactiveByRevocationStays ==
    \A i \in 1..Len(tokens) : \A c \in ValidCredentials :
        LET k == tokens[i].access_token IN
        (AnsweredInactive(DB, now, c, k) /\ getTokenByAccessToken(DB, k).revoked) =>
            /\ AnsweredInactive(DBAfterStep, now', c, k)
            /\ getTokenByAccessToken(DBAfterStep, k).revoked

\* C30: revocation is permanent: in every run, once the revoked flag of a Token
\* or of a RefreshEntry is true it stays true in every later state, whatever
\* grant, refresh, introspection, revoke or sweep follows, and an access token
\* once answered active:false because of revocation is never answered
\* active:true again.
C30_RevocationPermanent ==
    [][RevokedFlagsStay /\ InactiveByRevocationStays]_vars

\* a revoked Token record whose access token has not expired and is answered
\* {active: false} to its owner, its RefreshEntry revoked as well, next to a Token
\* record that is not revoked
C30_Witness ==
    \E i \in 1..Len(tokens) :
        /\ tokens[i].revoked
        /\ tokens[i].access_token_expires_at > now
        /\ tokens[i].refresh_token \in DOMAIN refreshTokens
        /\ refreshTokens[tokens[i].refresh_token].revoked
        /\ AnsweredInactive(DB, now, OwnerOf(tokens[i]), tokens[i].access_token)
        /\ \E j \in 1..Len(tokens) : ~tokens[j].revoked

\* the values of token_type_hint: absent, access_token, refresh_token, another
AnyTokenHints == TokenHints \cup {[token_type_hint |-> "something_else"]}

\* the owner's introspection of token value k, as an access token and as a
\* refresh token, answers {active: false} in store db
IntrospectedInactive(db, owner, k) ==
    /\ Answer(db, now, "introspect", Merge(owner, [token |-> k])) = InactiveResponse
    /\ Answer(db, now, "introspect",
              Merge(owner, [token |-> k, token_type_hint |-> "refresh_token"])) = InactiveResponse

\* the owner's /revoke of its unrevoked access token, with every hint, leaves it
\* answered {active: false}
RevokeReachesAccessToken ==
    \A i \in 1..Len(tokens) : \A hint \in AnyTokenHints :
        LET k == tokens[i].access_token
            owner == OwnerOf(tokens[i])
        IN ~getTokenByAccessToken(DB, k).revoked =>
              IntrospectedInactive(After(DB, now, "revoke", Merge(Merge(owner, [token |-> k]), hint)),
                                   owner, k)

\* the owner's /revoke of its unrevoked refresh token, with every hint, leaves it
\* answered {active: false}
RevokeReachesRefreshToken ==
    \A k \in DOMAIN refreshTokens : \A hint \in AnyTokenHints :
        LET owner == OwnerOf(refreshTokens[k]) IN
        ~refreshTokens[k].revoked =>
            IntrospectedInactive(After(DB, now, "revoke", Merge(Merge(owner, [token |-> k]), hint)),
                                 owner, k)

\* C31: for every value of token_type_hint (absent, access_token, refresh_token
\* or anything else), a /revoke call by the owning client that presents one of
\* its own unrevoked access tokens or refresh tokens revokes that token:
\* introspecting it afterwards answers active:false.
C31_RevokeWhateverTheHint ==
    RevokeReachesAccessToken /\ RevokeReachesRefreshToken

-----------------------------------------------------------------------------
(* Client registration. *)

CreatedClientId(b) == IF Has(b, "client_id") THEN b.client_id ELSE GeneratedClientId(b.entropy)

\* a create_client call for a registered client_id answers 400 invalid_request
\* and leaves the store as it was
CreateRefusesRegistered ==
    \A b \in CreateClientArgs, e \in Entropy :
        LET args == Merge(b, [entropy |-> e])
            r == Run(DB, now, Frame("create_client", args)) IN
        CreatedClientId(args) \in DOMAIN clients =>
            /\ r.h.resp.http = 400
            /\ r.h.resp.body.error = "invalid_request"
            /\ r.db = DB

\* of the create_client calls for one client_id, at most one answered 201
OneCreationAnswered == \A id \in ClientIds \cup {UnknownClientId} : Len(Created(hist, id)) <= 1

\* the stored hash is the hash of the secret handed to every caller answered 201
CreatedSecretsVerify ==
    \A id \in DOMAIN clients :
        \A i \in DOMAIN Created(hist, id) :
            verifySecret(Created(hist, id)[i], clients[id].client_secret_hash)

\* C32: create_client never replaces a registered client: a call for a
\* registered client_id is refused with invalid_request and changes nothing,
\* and of the calls for one unregistered client_id, however they interleave at
\* their awaits, at most one answers 201 and the stored hash is that of the
\* secret its caller received.
C32_CreateNeverOverwrites ==
    CreateRefusesRegistered /\ OneCreationAnswered /\ CreatedSecretsVerify

RedirectUrisWellFormed ==
    \A c \in DOMAIN clients :
        /\ clients[c].allowed_redirect_uris # {}
        /\ \A uri \in clients[c].allowed_redirect_uris : isValidUrl(uri)

\* an update_client call answered with an error leaves the store as it was
FailedUpdateChangesNothing ==
    \A b \in UpdateClientArgs :
        LET r == Run(DB, now, Frame("update_client", b)) IN
        r.h.resp.http # 200 => r.db = DB

\* C38: in every state reached by create_client, update_client and
\* delete_client, every registered client's allowed_redirect_uris is non-empty
\* and holds only valid absolute URLs, and an update_client call that fails
\* validation leaves the client record unchanged.
C38_RedirectUrisWellFormed == RedirectUrisWellFormed /\ FailedUpdateChangesNothing

-----------------------------------------------------------------------------
(* The instant now = expires_at. *)

\* a pending request at the instant of its expiry takes no code: authenticate
\* with valid credentials answers request_expired
AuthenticateRefusedAtExpiry ==
    \A rid \in DOMAIN authRequests :
        (authRequests[rid].status = "pending" /\ authRequests[rid].expires_at = now) =>
            LET r == Run(DB, now, Frame("authenticate",
                         [agent_id |-> "agent_1", agent_secret |-> SecretOf("agent_1"),
                          request_id |-> rid, model |-> "model_1"]))
            IN /\ IsOAuthError(r.h.resp, 400, "request_expired")
               /\ r.db.authorizationCodes = authorizationCodes

\* a poll of a pending request at the instant of its expiry reports the expiry
PollReportsExpiryAtExpiry ==
    \A rid \in DOMAIN authRequests :
        (authRequests[rid].status = "pending" /\ authRequests[rid].expires_at = now) =>
            LET resp == Answer(DB, now, "check_status", [request_id |-> rid]) IN
            resp.body.status = "error"

\* an authorization_code grant for a request at the instant of its expiry
\* answers invalid_grant and removes the code and the request
GrantRefusedAtExpiry ==
    \A a \in CodeGrantArgsIn(DB) :
        (/\ a.code \in DOMAIN authorizationCodes
         /\ authorizationCodes[a.code] \in DOMAIN authRequests
         /\ authRequests[authorizationCodes[a.code]].expires_at = now
         /\ a.client_id = authRequests[authorizationCodes[a.code]].client_id
         /\ a.client_secret = SecretOf(a.client_id)) =>
            LET r == Run(DB, now, Frame("token", a)) IN
            /\ IsOAuthError(r.h.resp, 400, "invalid_grant")
            /\ a.code \notin DOMAIN r.db.authorizationCodes
            /\ authorizationCodes[a.code] \notin DOMAIN r.db.authRequests

\* C33: an AuthRequest is usable only while expires_at > now: at the instant
\* now = expires_at an authenticate call binds no code and answers
\* request_expired, a poll of the pending request reports the expiry, and the
\* authorization_code grant answers invalid_grant and deletes the code and the
\* request.
C33_ExpiryBoundary ==
    AuthenticateRefusedAtExpiry /\ PollReportsExpiryAtExpiry /\ GrantRefusedAtExpiry

-----------------------------------------------------------------------------
(* Lookup by access-token string. *)

\* C34: distinct Token records hold distinct access_token strings, so that the
\* lookup by access-token string of introspection and revocation finds the
\* record the token endpoint stored for that string, also when a refresh grant
\* runs in the clock second of the grant that issued the previous access token.
C34_AccessTokensDistinct ==
    \A i, j \in 1..Len(tokens) :
        i # j => /\ tokens[i].access_token # tokens[j].access_token
                 /\ getTokenByAccessToken(DB, tokens[j].access_token).token_id
                        = tokens[j].token_id

-----------------------------------------------------------------------------
(* RefreshEntries and their Tokens. *)

\* every RefreshEntry names a stored Token of its agent and client
RefreshEntriesResolve ==
    \A k \in DOMAIN refreshTokens :
        LET token == getToken(DB, refreshTokens[k].token_id) IN
        /\ token # Null
        /\ token.agent_id = refreshTokens[k].agent_id
        /\ token.client_id = refreshTokens[k].client_id

\* a stored Token keeps its place, its agent and its client
TokensKeepTheirOwners ==
    /\ Len(tokens') >= Len(tokens)
    /\ \A i \in 1..Len(tokens) :
          /\ tokens'[i].token_id = tokens[i].token_id
          /\ tokens'[i].agent_id = tokens[i].agent_id
          /\ tokens'[i].client_id = tokens[i].client_id

\* no call in flight has been answered server_error, and no refresh grant begun
\* now and run without interruption would be
NoOriginalTokenMissing ==
    /\ \A a \in RefreshGrantArgs : Answer(DB, now, "token", a).http # 500
    /\ \A p \in InFlight("token") :
          procs[p].pc = "got_token" => procs[p].originalToken # Null

\* C35: under every interleaving of the grants, every RefreshEntry's token_id
\* names a stored Token with the entry's agent_id and client_id, so no refresh
\* grant answers server_error "Original token not found".
C35_RefreshEntriesResolve ==
    /\ [](RefreshEntriesResolve /\ NoOriginalTokenMissing)
    /\ [][TokensKeepTheirOwners]_vars

\* a RefreshEntry stored by one grant while another grant has stored its Token
\* and not yet its RefreshEntry, and a refresh grant that has found its Token
C35_Witness ==
    /\ refreshTokens # <<>>
    /\ \E p \in InFlight("token") : procs[p].pc = "created_token"
    /\ \E p \in InFlight("token") : procs[p].pc = "got_token"

-----------------------------------------------------------------------------
(* Tokens of removed principals. *)

\* the credentials a caller may hold for a client: those of the first
\* registration and those of a later one
AnyCredentials ==
    ValidCredentials \cup
    {[client_id |-> c, client_secret |-> generateSecureRandom(e)] : c \in ClientIds, e \in Entropy}

ReportedActive(resp) == resp.http = 200 /\ resp.body.active

\* no refresh grant with the refresh token of an orphaned Token succeeds
OrphanedRefreshTokenRefused ==
    \A i \in Orphans(hist), c \in AnyCredentials :
        Answer(DB, now, "token",
               Merge(c, [grant_type |-> "refresh_token",
                         refresh_token |-> tokens[i].refresh_token])).http # 200

\* no orphaned Token's access token or refresh token is reported active
OrphanedTokenInactive ==
    \A i \in Orphans(hist), c \in AnyCredentials :
        /\ ~ReportedActive(Answer(DB, now, "introspect",
                                  Merge(c, [token |-> tokens[i].access_token])))
        /\ ~ReportedActive(Answer(DB, now, "introspect",
                                  Merge(c, [token |-> tokens[i].refresh_token,
                                            token_type_hint |-> "refresh_token"])))

\* C36: tokens die with their client: in every state after delete_client(c),
\* also once a client is registered again under the client_id c with a new
\* secret, no refresh grant with a refresh token issued to the deleted client
\* succeeds and no access or refresh token issued to it is reported active.
C36_TokensDieWithClient == OrphanedRefreshTokenRefused /\ OrphanedTokenInactive

\* every Token stored by a step is for an agent that is registered
NewTokensForRegisteredAgents ==
    \A i \in (Len(tokens) + 1)..Len(tokens') :
        /\ tokens'[i].agent_id \in DOMAIN agents
        /\ tokens'[i].access_token.sub \in DOMAIN agents

\* C37: tokens die with their agent: once an agent is deleted no access token
\* with sub equal to its agent_id is issued, neither by an authorization_code
\* grant for a request it authenticated before the deletion nor by a refresh
\* grant with a refresh token issued for it.
C37_TokensDieWithAgent == [][NewTokensForRegisteredAgents]_vars

-----------------------------------------------------------------------------
(* Callers whose client credentials do not validate. *)

\* the store with the registered principals of db and nothing else
Blank(db) ==
    [db EXCEPT !.authRequests = <<>>, !.authorizationCodes = <<>>,
               !.tokens = <<>>, !.refreshTokens = <<>>]

\* credentials that do not validate in the current state: a part is missing,
\* the client is not registered, or the secret is not the registered one
Unvalidated ==
    LET all == AnyCredentials \cup InvalidCredentials IN
    {c \in all : \/ c.client_id \notin DOMAIN clients
                 \/ clients[c.client_id].client_secret_hash # <<"bcrypt", c.client_secret>>}
    \cup {Without(c, "client_secret") : c \in all}
    \cup {Without(c, "client_id") : c \in all}

\* the /token, /introspect and /revoke requests of such callers
UnvalidatedCalls ==
    LET token == CodeGrantArgsOf(Unvalidated) \cup RefreshGrantArgsOf(Unvalidated) IN
    {[op |-> "token", args |-> a] : a \in token}
    \cup {[op |-> o, args |-> a] : o \in {"introspect", "revoke"}, a \in TokenArgsOf(Unvalidated)}

\* C39: a /token, /introspect or /revoke request from a caller whose client
\* credentials do not validate is answered as it would be in a store with the
\* same registered clients and no AuthRequests, codes, Tokens or
\* RefreshEntries, and changes neither store.
C39_NoOracle ==
    \A q \in UnvalidatedCalls :
        LET r == Run(DB, now, Frame(q.op, q.args))
            b == Run(Blank(DB), now, Frame(q.op, q.args))
        IN /\ r.h.resp.http = b.h.resp.http
           /\ r.h.resp.body = b.h.resp.body
           /\ r.db = DB
           /\ b.db = Blank(DB)

\* the client of a stored, unrevoked Token has been deleted, and its refresh
\* grant with the Token's refresh token is refused as invalid_client
C39_Witness ==
    \E i \in Orphans(hist) :
        /\ tokens[i].client_id \notin DOMAIN clients
        /\ ~tokens[i].revoked
        /\ tokens[i].refresh_token \in DOMAIN refreshTokens
        /\ IsOAuthError(Answer(DB, now, "token",
                               Merge(OwnerOf(tokens[i]),
                                     [grant_type |-> "refresh_token",
                                      refresh_token |-> tokens[i].refresh_token])),
                        401, "invalid_client")

====
